---- MODULE Spec2Model ----
(***************************************************************************)
(* The DOM-automation campaign engine of the WhatsHybrid Lite content      *)
(* script (content/content.js): the campaign form, the preview modal, the  *)
(* UI campaign run (executeDomCampaign), the runs started by runtime       *)
(* messages (executeDomCampaignDirectly), the persisted run record         *)
(* (CampaignStorage) and the bounded DOM polling loops.                    *)
(*                                                                         *)
(* The content script is single threaded: one action of this module is the *)
(* code that runs between two suspension points (a timer, a storage        *)
(* callback, a click, a runtime message).  The page DOM is the             *)
(* environment: what a DOM query finds is drawn with \E.                   *)
(***************************************************************************)
EXTENDS Integers, Sequences, FiniteSets, TLC

\* ------------------------------------------------------------------------
\* Bounds of the model
\* ------------------------------------------------------------------------
\* longest contact list the campaign form or a runtime message carries
MaxContacts == 2
\* number of runs started by runtime messages that can be in progress at once
MaxDirect == 1
\* Math.random() is drawn from { k / RandDen : k \in 0 .. RandDen - 1 }
RandDen == 2
\* number of times the clock is moved between calls of the rate limiter
MaxClockSteps == 2
\* sends recorded beyond maxMessagesPerHour
MaxSendsOver == 1
\* longest message template, in atoms, applyVars is applied to
MaxTemplateLen == 3
\* a phone text of the model is up to MaxPhoneHead characters of any kind followed by
\* a run of the digit 1
MaxPhoneHead == 3
\* longest text of the contacts textarea parseCampaignLines is applied to, in characters
MaxRawLen == 5

\* ------------------------------------------------------------------------
\* Values
\* ------------------------------------------------------------------------
\* A contact entry {number, name}.  Texts are sequences of atoms: a literal
\* chunk, a blank " ", or one of the two placeholder tokens.
ContactNames == << <<"Ana">>, << >>, <<"Bia">> >>

Entry(j) == [number |-> j, name |-> ContactNames[((j - 1) % 3) + 1]]

\* the entry lists the textarea can hold (as parseCampaignLines returns them)
EntryLists == { [j \in 1..k |-> Entry(j)] : k \in 0..MaxContacts }

\* contents of the message textarea
Msgs == { << >>, << " " >>, << "{{nome}}" >>, << "Oi", " ", "{{nome}}" >> }

\* campMediaPayload: null, a payload whose base64 is '', a payload with bytes
MediaValues == { "null", "emptyB64", "dataB64" }

Truthy(m) == m # "null"

Base64Of(m) == IF m = "dataB64" THEN <<"A">> ELSE << >>

\* the value of a <input type="number">: '' or a decimal numeral
NumField(n) == [empty |-> FALSE, num |-> n]

EmptyField == [empty |-> TRUE, num |-> 0]

NoRecord == [cursor |-> -1, status |-> "none", startedAt |-> -1]

DirectIds == 1..MaxDirect

PollIdle == [stage |-> "none", max |-> 0, i |-> 0, queries |-> 0, seen |-> FALSE,
             result |-> "none"]

DirectIdle == [pc |-> "idle", i |-> 0, n |-> 0, kind |-> "none", media |-> "null", msg |-> << >>,
               stopAsked |-> FALSE]

\* no openChatBySearch call is in progress
ChatIdle == [stage |-> "none", digits |-> << >>, i |-> 0, seen |-> FALSE, always |-> TRUE,
             title |-> << >>, result |-> "none"]

\* messageTimestamps = [] at load; now: Date.now(); sent: every timestamp ever pushed;
\* last: the call made last, allowed: what checkRateLimit returned last
RateInit == [window |-> << >>, now |-> 0, sent |-> << >>, last |-> "none", allowed |-> TRUE,
             steps |-> 0]

\* no insertIntoComposer call is in progress
InsIdle == [pc |-> "idle", mode |-> "none", composer |-> FALSE, text |-> << >>,
            tried |-> << >>, box |-> << >>, result |-> "none"]

\* no command was received on an invocation slot
NoCommand == [cmd |-> "none", answers |-> << >>, dispatched |-> 0]

\* the queue names of the model: 'msg' and 'msg2', as sequences of characters
QueueNames == { << "msg" >>, << "msg", "2" >> }

\* new QueueManager(): queues maps a name to the ids of its items, in order (a name
\* without an array in the Map has none); items holds every item ever created, by id,
\* with `at`, the await its _processQueue call is suspended at; processing is the Set of
\* processing ids; paused and starts are history: the queues pause() was called on and
\* resume() not since, and for every item taken from a queue its id, its priority, the
\* smallest priority that was in the queue and whether pause() had set its status
QmInit == [queues |-> [q \in QueueNames |-> << >>], items |-> << >>, processing |-> {},
           paused |-> {}, starts |-> << >>]

\* new HumanAssistanceSystem(): agents holds the values of the agents Map in insertion
\* order, escalationQueue the escalations in order, and activeHandoffs[c] the id of the
\* agent of the handoff stored under conversation c (NoAgent: no entry)
AgentIds == { "agent-001", "agent-002" }
NoAgent == "none"
ConversationIds == { "c1", "c2" }
HasInit == [agents |-> << >>, escalationQueue |-> << >>,
            activeHandoffs |-> [c \in ConversationIds |-> NoAgent]]

\* new SchedulerManager(): objects holds every task object created, with its id, its
\* enabled field and, as history, whether cancel() has found it; tasks[t] and timers[t]
\* are the task object and the timer the Maps hold under t (0: no entry); created counts
\* the timers created, live holds the timers of the page that were not cleared, each with
\* the task object its callback closes over; last is the task object whose handler the
\* last step invoked (0: none)
TaskIds == { "t1", "t2" }
SmInit == [objects |-> << >>, tasks |-> [t \in TaskIds |-> 0], timers |-> [t \in TaskIds |-> 0],
           created |-> 0, live |-> {}, last |-> 0]

\* no pure function is being applied
CalcIdle == [fn |-> "none", input |-> << >>, output |-> << >>, done |-> FALSE]

\* ------------------------------------------------------------------------
\* Pure helpers of content.js
\* ------------------------------------------------------------------------
IsBlank(a) == a = " "

RECURSIVE TrimLeft(_)
TrimLeft(s) == IF s # << >> /\ IsBlank(Head(s)) THEN TrimLeft(Tail(s)) ELSE s

RECURSIVE TrimRight(_)
TrimRight(s) ==
  IF s # << >> /\ IsBlank(s[Len(s)]) THEN TrimRight(SubSeq(s, 1, Len(s) - 1)) ELSE s

\* String.prototype.trim
Trim(s) == TrimRight(TrimLeft(s))

\* GetSubstitution of String.prototype.replaceAll with a string replacement: in the
\* replacement, $$ stands for $, $& for the matched text, $` and $' for the text
\* before and after the match
RECURSIVE GetSubstitution(_, _, _, _)
GetSubstitution(by, matched, before, after) ==
  IF by = << >> THEN << >>
  ELSE (CASE Head(by) = "$$" -> << "$" >>
          [] Head(by) = "$&" -> << matched >>
          [] Head(by) = "$`" -> before
          [] Head(by) = "$'" -> after
          [] OTHER -> << Head(by) >>)
       \o GetSubstitution(Tail(by), matched, before, after)

\* the result of replaceAll from position k of s on
RECURSIVE ReplaceFrom(_, _, _, _)
ReplaceFrom(s, k, token, by) ==
  IF k > Len(s) THEN << >>
  ELSE IF s[k] = token
    THEN GetSubstitution(by, token, SubSeq(s, 1, k - 1), SubSeq(s, k + 1, Len(s)))
           \o ReplaceFrom(s, k + 1, token, by)
  ELSE << s[k] >> \o ReplaceFrom(s, k + 1, token, by)

\* String.prototype.replaceAll(token, by)
ReplaceAll(s, token, by) == ReplaceFrom(s, 1, token, by)

\* the number of an entry as text
NumberText(e) == << "+", ToString(e.number) >>

applyVars(msg, entry) ==
  ReplaceAll(ReplaceAll(msg, "{{nome}}", entry.name), "{{numero}}", NumberText(entry))

Max2(a, b) == IF a >= b THEN a ELSE b

Min2(a, b) == IF a <= b THEN a ELSE b

\* clamp(n, min, max) on a finite number
clamp(n, min, max) == Max2(min, Min2(max, n))

\* campDelayMin.value || 8 : '' is falsy, every numeral (also "0") is truthy
ValueOr(field, dflt) == IF field.empty THEN dflt ELSE field.num

\* ------------------------------------------------------------------------
\* Program constants
\* ------------------------------------------------------------------------
DelayMinDefault == 8
DelayMaxDefault == 15
DelayMinLow == 3
DelayMinHigh == 120
DelayMaxLow == 5
DelayMaxHigh == 240

\* ------------------------------------------------------------------------
\* State
\* ------------------------------------------------------------------------
VARIABLES
  campNumbers,        \* the contacts textarea, as the entry list it parses to
  campMsg,            \* the message textarea
  campMediaPayload,   \* module variable campMediaPayload
  campDelayMin,       \* the two delay inputs
  campDelayMax,
  previewModal,       \* TRUE iff the preview modal is displayed
  campRun,            \* { running, paused, abort, cursor, total }
  pc,                 \* where executeDomCampaign is suspended ("idle": not running)
  idx,                \* its loop variable i
  runEntries,         \* its arguments
  runMsg,
  dmin,               \* its locals
  dmax,
  lastDelay,          \* the pending pacing delay times RandDen, in seconds (0: none)
  storage,            \* chrome.storage.local[whl_campaign_state]
  storageQueue,       \* storage calls issued and not yet completed, oldest first
  progress,           \* << current, total >> shown by updateProgress
  outcome,            \* final status of the last run: "none", "aborted", "completed"
  attempted,          \* history: list positions whose per-contact step began, this run
  results,            \* history: TRUE/FALSE for each per-contact step that ended
  delaysElapsed,      \* history: pacing delays that elapsed in this run
  stopReq,            \* history: stop was requested during this run
  cursorAtPause,      \* history: campRun.cursor when pause was last requested
  inFlightAtPause,    \* history: a per-contact step was in progress at that moment
  direct,             \* the executeDomCampaignDirectly invocations
  poll,               \* the DOM polling loop in progress
  chat,               \* the openChatBySearch call in progress
  rate,               \* messageTimestamps, the clock and the last rate-limiter call
  ins,                \* the insertIntoComposer call in progress
  calc,               \* a call of a pure function: its argument and its result
  replies,            \* per invocation slot: the last command received and its responses
  startMedia,         \* history: campMediaPayload when the current UI run started
  idleClick,          \* history: the last Pause or Stop click made while no UI run was active
  qm,                 \* a QueueManager: its queues, the items in processing, its flags
  has,                \* a HumanAssistanceSystem: its agents and its active handoffs
  sm                  \* a SchedulerManager: its tasks and their timers

formVars == << campNumbers, campMsg, campMediaPayload, campDelayMin, campDelayMax >>

runArgs == << runEntries, runMsg, dmin, dmax >>

pauseHist == << cursorAtPause, inFlightAtPause >>

\* the state no step of a campaign run reads or writes
machineVars == << poll, chat, rate, ins, calc >>

\* the state of the library classes next to the campaign engine, and the history of
\* the clicks made while no run is active
libVars == << idleClick, qm, has, sm >>

auxVars == << poll, chat, rate, ins, calc, replies, startMedia, idleClick, qm, has, sm >>

\* the state of the campaign form, the campaign runs and the persisted record
coreVars == << campNumbers, campMsg, campMediaPayload, campDelayMin, campDelayMax,
               previewModal, campRun, pc, idx, runEntries, runMsg, dmin, dmax, lastDelay,
               storage, storageQueue, progress, outcome, attempted, results,
               delaysElapsed, stopReq, cursorAtPause, inFlightAtPause, direct,
               replies, startMedia >>

\* everything but the five machines
campVars == << campNumbers, campMsg, campMediaPayload, campDelayMin, campDelayMax,
               previewModal, campRun, pc, idx, runEntries, runMsg, dmin, dmax, lastDelay,
               storage, storageQueue, progress, outcome, attempted, results,
               delaysElapsed, stopReq, cursorAtPause, inFlightAtPause, direct,
               replies, startMedia, idleClick, qm, has, sm >>

vars == << campNumbers, campMsg, campMediaPayload, campDelayMin, campDelayMax,
           previewModal, campRun, pc, idx, runEntries, runMsg, dmin, dmax, lastDelay,
           storage, storageQueue, progress, outcome, attempted, results,
           delaysElapsed, stopReq, cursorAtPause, inFlightAtPause, direct, poll,
           chat, rate, ins, calc, replies, startMedia, idleClick, qm, has, sm >>

\* pc values at which the try block of a contact has begun and not ended
InFlightPcs == { "nav", "compose", "media", "text" }

\* everything but the form and the pure functions, when the content script has mounted
\* its panel
InitEngine ==
  /\ previewModal = FALSE
  /\ campRun = [running |-> FALSE, paused |-> FALSE, abort |-> FALSE, cursor |-> 0, total |-> 0]
  /\ pc = "idle"
  /\ idx = 0
  /\ runEntries = << >>
  /\ runMsg = << >>
  /\ dmin = 0
  /\ dmax = 0
  /\ lastDelay = 0
  /\ storage = NoRecord
  /\ storageQueue = << >>
  /\ progress = << 0, 0 >>
  /\ outcome = "none"
  /\ attempted = << >>
  /\ results = << >>
  /\ delaysElapsed = 0
  /\ stopReq = FALSE
  /\ cursorAtPause = 0
  /\ inFlightAtPause = FALSE
  /\ direct = [d \in DirectIds |-> DirectIdle]
  /\ poll = PollIdle
  /\ chat = ChatIdle
  /\ rate = RateInit
  /\ ins = InsIdle
  /\ replies = [d \in DirectIds |-> NoCommand]
  /\ startMedia = "null"
  /\ idleClick = "none"
  /\ qm = QmInit
  /\ has = HasInit
  /\ sm = SmInit

\* the form as the panel's markup creates it
Init ==
  /\ campNumbers = << >>
  /\ campMsg = << >>
  /\ campMediaPayload = "null"
  /\ campDelayMin = NumField(DelayMinDefault)
  /\ campDelayMax = NumField(DelayMaxDefault)
  /\ InitEngine
  /\ calc = CalcIdle

\* ------------------------------------------------------------------------
\* The campaign form
\* ------------------------------------------------------------------------
\* the user edits the contacts textarea
EditNumbers ==
  \E l \in EntryLists :
    /\ l # campNumbers
    /\ campNumbers' = l
    /\ UNCHANGED << campMsg, campMediaPayload, campDelayMin, campDelayMax, previewModal,
                    campRun, pc, idx, runArgs, lastDelay, storage, storageQueue, progress,
                    outcome, attempted, results, delaysElapsed, stopReq, pauseHist, direct, auxVars >>

\* the user edits the message textarea
EditMsg ==
  \E m \in Msgs :
    /\ m # campMsg
    /\ campMsg' = m
    /\ UNCHANGED << campNumbers, campMediaPayload, campDelayMin, campDelayMax, previewModal,
                    campRun, pc, idx, runArgs, lastDelay, storage, storageQueue, progress,
                    outcome, attempted, results, delaysElapsed, stopReq, pauseHist, direct, auxVars >>

\* campMedia 'change' handler, at the moment fileToPayload settles
MediaChange ==
  \E p \in MediaValues :
    /\ p # campMediaPayload
    /\ campMediaPayload' = p
    /\ UNCHANGED << campNumbers, campMsg, campDelayMin, campDelayMax, previewModal,
                    campRun, pc, idx, runArgs, lastDelay, storage, storageQueue, progress,
                    outcome, attempted, results, delaysElapsed, stopReq, pauseHist, direct, auxVars >>

\* the three validations of the campStartBtn click handler
StartAccepted ==
  /\ Len(campNumbers) # 0
  /\ (Trim(campMsg) # << >> \/ (Truthy(campMediaPayload) /\ Base64Of(campMediaPayload) # << >>))
  /\ ~campRun.running

\* campStartBtn click: a rejected request and a request to schedule for later
\* change nothing here; an accepted immediate request shows the preview modal
StartClick ==
  \E isScheduled \in BOOLEAN :
    /\ StartAccepted
    /\ ~isScheduled
    /\ previewModal' = TRUE
    /\ UNCHANGED << formVars, campRun, pc, idx, runArgs, lastDelay, storage, storageQueue,
                    progress, outcome, attempted, results, delaysElapsed, stopReq,
                    pauseHist, direct, auxVars >>

\* previewCancelBtn click
PreviewCancel ==
  /\ previewModal
  /\ previewModal' = FALSE
  /\ UNCHANGED << formVars, campRun, pc, idx, runArgs, lastDelay, storage, storageQueue,
                  progress, outcome, attempted, results, delaysElapsed, stopReq,
                  pauseHist, direct, auxVars >>

\* ------------------------------------------------------------------------
\* executeDomCampaign
\* ------------------------------------------------------------------------
Total == Len(runEntries)

\* the text sent to the contact at list position i + 1
TextFor(i) == Trim(applyVars(runMsg, runEntries[i + 1]))

\* a loop that never looks at the abort flag
AbortCheckNever == FALSE

\* the abort checks of the loop: if (campRun.abort) break
AbortCheck == campRun.abort

\* a loop that a failed contact ends
LoopCondStopsOnFailure(i) == i < Total /\ (results = << >> \/ results[Len(results)])

\* the condition of the for loop
LoopCond(i) == i < Total

\* a waitWhilePaused that returns at once
MustWaitNever == FALSE

\* a waitWhilePaused that does not look at the abort flag
MustWaitIgnoresAbort == campRun.paused

\* the condition under which waitWhilePaused sleeps
MustWait == campRun.paused /\ ~campRun.abort

\* i++ of the for loop
NextIndex(i) == i + 1

\* a finally block that stores the index of the contact just processed
NextCursorStale(i) == i

\* campRun.cursor = i + 1 in the finally block
NextCursor(i) == i + 1

\* a pacing condition that is off by one
HasPacingDelaySkipsOne(i) == i < Total - 2

\* if (i < entries.length - 1): a pacing delay follows contact i
HasPacingDelay(i) == i < Total - 1

\* a delay computed with the wrong sign
RandomDelayWrongSign(lo, hi, k) == k * (hi + lo) + lo * RandDen

\* (Math.random() * (dmax - dmin) + dmin), times RandDen, with Math.random() = k / RandDen
RandomDelay(lo, hi, k) == k * (hi - lo) + lo * RandDen

\* new Date().toISOString() as a number of turns of the clock since the run began: at
\* the start of executeDomCampaign, and in the finally block of contact i, which the
\* awaits of the initial save and of the contacts up to i have gone before
DateAtStart == 0

DateAfter(i) == i + 1

\* the record of the initial CampaignStorage.save
InitialRecord == [cursor |-> 0, status |-> "running", startedAt |-> DateAtStart]

\* the record written in the finally block
FinallyRecord(i) ==
  [cursor |-> NextCursor(i), status |-> IF campRun.abort THEN "aborted" ELSE "running",
   startedAt |-> DateAfter(i)]

SetOp(rec, k) == [op |-> "set", rec |-> rec, k |-> k]

\* the final status branch of the epilogue
FinalStatus == IF campRun.abort THEN "aborted" ELSE "completed"

\* an epilogue that saves the final state of the run
EpilogueOpSavesFinal ==
  [op |-> "set", rec |-> [cursor |-> campRun.cursor, status |-> FinalStatus,
                          startedAt |-> DateAtStart], k |-> "clear"]

\* the storage call of the epilogue: CampaignStorage.clear()
EpilogueOp == [op |-> "remove", rec |-> NoRecord, k |-> "clear"]

\* the effect of a completed chrome.storage.local call on the stored record
ApplyOp(o) == IF o.op = "remove" THEN NoRecord ELSE o.rec

\* the end of the try block of contact i (ok: it did not throw), the catch and the
\* finally block up to its await; q is the storage queue at that moment
Finish(i, ok, q) ==
  /\ results' = Append(results, ok)
  /\ progress' = << i + 1, Total >>
  /\ campRun' = [campRun EXCEPT !.cursor = NextCursor(i)]
  /\ storageQueue' = Append(q, SetOp(FinallyRecord(i), "finally"))
  /\ pc' = "finallySave"
  /\ idx' = i

\* the loop body from "const e = entries[i]" to the first suspension of openChatBySearch;
\* early: openChatBySearch throws before it suspends (number too short, no search box)
BeginContact(i, early, q) ==
  /\ attempted' = Append(attempted, i + 1)
  /\ outcome' = outcome
  /\ IF early
       THEN Finish(i, FALSE, q)
       ELSE /\ pc' = "nav"
            /\ idx' = i
            /\ progress' = << i, Total >>
            /\ storageQueue' = q
            /\ UNCHANGED << campRun, results >>

\* an epilogue that leaves the paused flag as it is
EpilogueKeepsPaused(q) ==
  /\ campRun' = [campRun EXCEPT !.running = FALSE]
  /\ progress' = << Total, Total >>
  /\ outcome' = FinalStatus
  /\ storageQueue' = Append(q, EpilogueOp)
  /\ pc' = "idle"
  /\ idx' = idx
  /\ UNCHANGED << attempted, results >>

\* the code after the loop, up to the await of CampaignStorage.clear()
Epilogue(q) ==
  /\ campRun' = [campRun EXCEPT !.running = FALSE, !.paused = FALSE]
  /\ progress' = << Total, Total >>
  /\ outcome' = FinalStatus
  /\ storageQueue' = Append(q, EpilogueOp)
  /\ pc' = "idle"
  /\ idx' = idx
  /\ UNCHANGED << attempted, results >>

\* the code after waitWhilePaused returned
AfterWait(i, early, q) ==
  IF AbortCheck THEN Epilogue(q) ELSE BeginContact(i, early, q)

\* the head of the loop with loop variable i; the last updateProgress before it was
\* updateProgress(0, n) ahead of the loop or updateProgress(i, n) of the turn before
LoopHead(i, early, q) ==
  IF LoopCond(i) /\ ~AbortCheck
    THEN IF MustWait
           THEN /\ pc' = "paused"
                /\ idx' = i
                /\ storageQueue' = q
                /\ progress' = << i, Total >>
                /\ UNCHANGED << campRun, attempted, results, outcome >>
           ELSE AfterWait(i, early, q)
    ELSE Epilogue(q)

\* previewConfirmBtn click: hides the modal, parses the form again and calls
\* executeDomCampaign, which runs up to the await of the initial CampaignStorage.save
PreviewConfirm ==
  /\ previewModal
  /\ previewModal' = FALSE
  /\ runEntries' = campNumbers
  /\ runMsg' = Trim(campMsg)
  /\ dmin' = clamp(ValueOr(campDelayMin, DelayMinDefault), DelayMinLow, DelayMinHigh)
  /\ dmax' = clamp(ValueOr(campDelayMax, DelayMaxDefault), DelayMaxLow, DelayMaxHigh)
  /\ campRun' = [running |-> TRUE, paused |-> FALSE, abort |-> FALSE, cursor |-> 0,
                 total |-> Len(campNumbers)]
  /\ storageQueue' = Append(storageQueue, SetOp(InitialRecord, "init"))
  /\ pc' = "initSave"
  /\ idx' = 0
  /\ attempted' = << >>
  /\ results' = << >>
  /\ delaysElapsed' = 0
  /\ stopReq' = FALSE
  /\ outcome' = "none"
  /\ startMedia' = campMediaPayload
  /\ UNCHANGED << formVars, lastDelay, storage, progress, pauseHist, direct, machineVars,
                  replies, libVars >>

\* the callback of the initial CampaignStorage.save: updateProgress(0, n), then the loop
InitSaveDone ==
  /\ storageQueue # << >>
  /\ Head(storageQueue).k = "init"
  /\ storage' = ApplyOp(Head(storageQueue))
  /\ \E early \in BOOLEAN : LoopHead(0, early, Tail(storageQueue))
  /\ UNCHANGED << formVars, previewModal, runArgs, lastDelay, delaysElapsed, stopReq,
                  pauseHist, direct, auxVars >>

\* a sleep(250) of waitWhilePaused elapses
PausedWake ==
  /\ pc = "paused"
  /\ ~MustWait
  /\ \E early \in BOOLEAN : AfterWait(idx, early, storageQueue)
  /\ UNCHANGED << formVars, previewModal, runArgs, lastDelay, storage, delaysElapsed,
                  stopReq, pauseHist, direct, auxVars >>

\* openChatBySearch settles
NavDone ==
  /\ pc = "nav"
  /\ \E ok \in BOOLEAN :
       IF ok
         THEN /\ pc' = "compose"
              /\ UNCHANGED << idx, campRun, results, progress, storageQueue >>
         ELSE Finish(idx, FALSE, storageQueue)
  /\ UNCHANGED << formVars, previewModal, runArgs, lastDelay, storage, outcome, attempted,
                  delaysElapsed, stopReq, pauseHist, direct, auxVars >>

\* sleep(500) elapsed: findComposer, then the media branch or the text branch up to
\* its first suspension
ComposeStep ==
  /\ pc = "compose"
  /\ \E dom \in { "noComposer", "noAttachButton", "ok" } :
       IF dom = "noComposer" THEN Finish(idx, FALSE, storageQueue)
       ELSE IF Truthy(campMediaPayload)
         THEN IF Base64Of(campMediaPayload) = << >> \/ dom = "noAttachButton"
                THEN Finish(idx, FALSE, storageQueue)
                ELSE /\ pc' = "media"
                     /\ UNCHANGED << idx, campRun, results, progress, storageQueue >>
         ELSE IF TextFor(idx) = << >>
                THEN Finish(idx, FALSE, storageQueue)
                ELSE /\ pc' = "text"
                     /\ UNCHANGED << idx, campRun, results, progress, storageQueue >>
  /\ UNCHANGED << formVars, previewModal, runArgs, lastDelay, storage, outcome, attempted,
                  delaysElapsed, stopReq, pauseHist, direct, auxVars >>

\* attachMediaAndSend settles (and, on success, sleep(500) and recordMessageSent)
MediaDone ==
  /\ pc = "media"
  /\ \E ok \in BOOLEAN : Finish(idx, ok, storageQueue)
  /\ UNCHANGED << formVars, previewModal, runArgs, lastDelay, storage, outcome, attempted,
                  delaysElapsed, stopReq, pauseHist, direct, auxVars >>

\* insertIntoComposer, sleep(300), clickSend and sleep(500) settle
TextDone ==
  /\ pc = "text"
  /\ \E ok \in BOOLEAN : Finish(idx, ok, storageQueue)
  /\ UNCHANGED << formVars, previewModal, runArgs, lastDelay, storage, outcome, attempted,
                  delaysElapsed, stopReq, pauseHist, direct, auxVars >>

\* the callback of the CampaignStorage.save of the finally block, then the pacing
\* delay or the next turn of the loop
FinallySaveDone ==
  /\ storageQueue # << >>
  /\ Head(storageQueue).k = "finally"
  /\ storage' = ApplyOp(Head(storageQueue))
  /\ IF HasPacingDelay(idx)
       THEN /\ \E k \in 0..(RandDen - 1) : lastDelay' = RandomDelay(dmin, dmax, k)
            /\ pc' = "delay"
            /\ storageQueue' = Tail(storageQueue)
            /\ UNCHANGED << idx, campRun, attempted, results, progress, outcome >>
       ELSE /\ \E early \in BOOLEAN : LoopHead(NextIndex(idx), early, Tail(storageQueue))
            /\ UNCHANGED lastDelay
  /\ UNCHANGED << formVars, previewModal, runArgs, delaysElapsed, stopReq, pauseHist, direct, auxVars >>

\* the pacing sleep elapses
DelayDone ==
  /\ pc = "delay"
  /\ lastDelay' = 0
  /\ delaysElapsed' = delaysElapsed + 1
  /\ \E early \in BOOLEAN : LoopHead(NextIndex(idx), early, storageQueue)
  /\ UNCHANGED << formVars, previewModal, runArgs, storage, stopReq, pauseHist, direct, auxVars >>

\* the callback of CampaignStorage.clear(): executeDomCampaign returns
ClearDone ==
  /\ storageQueue # << >>
  /\ Head(storageQueue).k = "clear"
  /\ storage' = ApplyOp(Head(storageQueue))
  /\ storageQueue' = Tail(storageQueue)
  /\ UNCHANGED << formVars, previewModal, campRun, pc, idx, runArgs, lastDelay, progress,
                  outcome, attempted, results, delaysElapsed, stopReq, pauseHist, direct, auxVars >>

\* campPauseBtn click
PauseClick ==
  /\ campRun.running
  /\ campRun' = [campRun EXCEPT !.paused = ~campRun.paused]
  /\ IF ~campRun.paused
       THEN /\ cursorAtPause' = campRun.cursor
            /\ inFlightAtPause' = (pc \in InFlightPcs)
       ELSE UNCHANGED pauseHist
  /\ UNCHANGED << formVars, previewModal, pc, idx, runArgs, lastDelay, storage, storageQueue,
                  progress, outcome, attempted, results, delaysElapsed, stopReq, direct, auxVars >>

\* the invocations of executeDomCampaignDirectly in progress when Stop is clicked
\* (history: the click reaches none of them)
StopAsked(ds) ==
  [d \in DirectIds |-> IF ds[d].pc # "idle" THEN [ds[d] EXCEPT !.stopAsked = TRUE] ELSE ds[d]]

\* campStopBtn click
StopClick ==
  /\ campRun.running
  /\ campRun' = [campRun EXCEPT !.abort = TRUE, !.paused = FALSE]
  /\ stopReq' = TRUE
  /\ direct' = StopAsked(direct)
  /\ UNCHANGED << formVars, previewModal, pc, idx, runArgs, lastDelay, storage, storageQueue,
                  progress, outcome, attempted, results, delaysElapsed, pauseHist, auxVars >>

\* campPauseBtn click while campRun.running is false: the handler returns at once
PauseClickNoRun ==
  /\ ~campRun.running
  /\ idleClick' = "pause"
  /\ UNCHANGED << coreVars, machineVars, qm, has, sm >>

\* campStopBtn click while campRun.running is false: the handler returns at once
StopClickNoRun ==
  /\ ~campRun.running
  /\ idleClick' = "stop"
  /\ direct' = StopAsked(direct)
  /\ UNCHANGED << formVars, previewModal, campRun, pc, idx, runArgs, lastDelay, storage,
                  storageQueue, progress, outcome, attempted, results, delaysElapsed,
                  stopReq, pauseHist, machineVars, replies, startMedia, qm, has, sm >>

\* ------------------------------------------------------------------------
\* Runtime messages and executeDomCampaignDirectly
\* ------------------------------------------------------------------------
\* the text executeDomCampaignDirectly sends to the contact at list position i + 1
DirectTextFor(r, i) == Trim(applyVars(r.msg, Entry(i + 1)))

\* sendResponse({ ok: true, sent: entries.length })
OkResponse(n) == [ok |-> TRUE, sent |-> n]

\* sendResponse({ ok: false, error: ... })
ErrorResponse == [ok |-> FALSE, error |-> "Dados invalidos"]

\* the handler of the command on slot d after await executeDomCampaignDirectly: the
\* SEND_TEAM_MESSAGES handler answers, the EXECUTE_SCHEDULED_CAMPAIGN handler ends;
\* sentNow: the number of sends the step made (history, kept in dispatched)
RepliesAfter(d, sentNow) ==
  replies' = [replies EXCEPT
                ![d].dispatched = @ + sentNow,
                ![d].answers = IF direct'[d].pc = "idle" /\ direct[d].kind = "team"
                                 THEN Append(@, OkResponse(direct[d].n))
                                 ELSE @]

\* the loop of executeDomCampaignDirectly has ended: the invocation returns
DirectReturn(d) == direct' = [direct EXCEPT ![d] = DirectIdle]

\* after the try/catch of contact i: the pacing delay, or the end of the loop
DirectAfterContact(d, i) ==
  IF i < direct[d].n - 1
    THEN direct' = [direct EXCEPT ![d].pc = "delay", ![d].i = i]
    ELSE DirectReturn(d)

\* the head of the loop of executeDomCampaignDirectly for the invocation r, up to the
\* first suspension of openChatBySearch
DirectLoopHead(d, r, i, early) ==
  IF i < r.n
    THEN IF early
           THEN IF i < r.n - 1
                  THEN direct' = [direct EXCEPT ![d] = [r EXCEPT !.pc = "delay", !.i = i]]
                  ELSE DirectReturn(d)
           ELSE direct' = [direct EXCEPT ![d] = [r EXCEPT !.pc = "nav", !.i = i]]
    ELSE DirectReturn(d)

\* chrome.runtime.onMessage: EXECUTE_SCHEDULED_CAMPAIGN; the handler never calls
\* sendResponse (a malformed campaign returns at once, like one without entries)
ScheduledCampaignMessage ==
  \E d \in DirectIds, n \in 0..MaxContacts, m \in Msgs, p \in MediaValues, early \in BOOLEAN :
    /\ direct[d].pc = "idle"
    /\ DirectLoopHead(d, [pc |-> "idle", i |-> 0, n |-> n, kind |-> "scheduled",
                          media |-> p, msg |-> m, stopAsked |-> FALSE], 0, early)
    /\ replies' = [replies EXCEPT ![d] = [cmd |-> "scheduled", answers |-> << >>, dispatched |-> 0]]
    /\ UNCHANGED << formVars, previewModal, campRun, pc, idx, runArgs, lastDelay, storage,
                    storageQueue, progress, outcome, attempted, results, delaysElapsed,
                    stopReq, pauseHist, machineVars, startMedia, libVars >>

\* chrome.runtime.onMessage: SEND_TEAM_MESSAGES with a members array; without a
\* message (!msg) the handler answers with an error and starts nothing
TeamMessage ==
  \E d \in DirectIds, n \in 0..MaxContacts, m \in Msgs, early \in BOOLEAN :
    /\ direct[d].pc = "idle"
    /\ IF m = << >>
         THEN /\ direct' = direct
              /\ replies' = [replies EXCEPT ![d] = [cmd |-> "team", answers |-> << ErrorResponse >>, dispatched |-> 0]]
         ELSE /\ DirectLoopHead(d, [pc |-> "idle", i |-> 0, n |-> n, kind |-> "team",
                                    media |-> "null", msg |-> m, stopAsked |-> FALSE],
                                   0, early)
              /\ replies' = [replies EXCEPT ![d] =
                               [cmd |-> "team",
                                answers |-> IF direct'[d].pc = "idle" THEN << OkResponse(n) >>
                                            ELSE << >>,
                                dispatched |-> 0]]
    /\ UNCHANGED << formVars, previewModal, campRun, pc, idx, runArgs, lastDelay, storage,
                    storageQueue, progress, outcome, attempted, results, delaysElapsed,
                    stopReq, pauseHist, machineVars, startMedia, libVars >>

\* openChatBySearch settles in executeDomCampaignDirectly
DirectNavDone ==
  \E d \in DirectIds, ok \in BOOLEAN :
    /\ direct[d].pc = "nav"
    /\ IF ok
         THEN direct' = [direct EXCEPT ![d].pc = "compose"]
         ELSE DirectAfterContact(d, direct[d].i)
    /\ RepliesAfter(d, 0)
    /\ UNCHANGED << formVars, previewModal, campRun, pc, idx, runArgs, lastDelay, storage,
                    storageQueue, progress, outcome, attempted, results, delaysElapsed,
                    stopReq, pauseHist, machineVars, startMedia, libVars >>

\* sleep(500) elapsed in executeDomCampaignDirectly: findComposer, then the media
\* branch or the text branch up to its first suspension
DirectComposeStep ==
  \E d \in DirectIds, dom \in { "noComposer", "noAttachButton", "ok" } :
    /\ direct[d].pc = "compose"
    /\ IF dom = "noComposer" THEN DirectAfterContact(d, direct[d].i)
       ELSE IF Truthy(direct[d].media)
         THEN IF Base64Of(direct[d].media) = << >> \/ dom = "noAttachButton"
                THEN DirectAfterContact(d, direct[d].i)
                ELSE direct' = [direct EXCEPT ![d].pc = "media"]
         ELSE IF DirectTextFor(direct[d], direct[d].i) = << >>
                THEN DirectAfterContact(d, direct[d].i)
                ELSE direct' = [direct EXCEPT ![d].pc = "text"]
    /\ RepliesAfter(d, 0)
    /\ UNCHANGED << formVars, previewModal, campRun, pc, idx, runArgs, lastDelay, storage,
                    storageQueue, progress, outcome, attempted, results, delaysElapsed,
                    stopReq, pauseHist, machineVars, startMedia, libVars >>

\* attachMediaAndSend settles in executeDomCampaignDirectly; ok: it sent the media
DirectMediaDone ==
  \E d \in DirectIds, ok \in BOOLEAN :
    /\ direct[d].pc = "media"
    /\ DirectAfterContact(d, direct[d].i)
    /\ RepliesAfter(d, IF ok THEN 1 ELSE 0)
    /\ UNCHANGED << formVars, previewModal, campRun, pc, idx, runArgs, lastDelay, storage,
                    storageQueue, progress, outcome, attempted, results, delaysElapsed,
                    stopReq, pauseHist, machineVars, startMedia, libVars >>

\* insertIntoComposer and clickSend settle in executeDomCampaignDirectly; ok: the
\* message was sent
DirectTextDone ==
  \E d \in DirectIds, ok \in BOOLEAN :
    /\ direct[d].pc = "text"
    /\ DirectAfterContact(d, direct[d].i)
    /\ RepliesAfter(d, IF ok THEN 1 ELSE 0)
    /\ UNCHANGED << formVars, previewModal, campRun, pc, idx, runArgs, lastDelay, storage,
                    storageQueue, progress, outcome, attempted, results, delaysElapsed,
                    stopReq, pauseHist, machineVars, startMedia, libVars >>

\* the pacing sleep of executeDomCampaignDirectly elapses
DirectDelayDone ==
  \E d \in DirectIds, early \in BOOLEAN :
    /\ direct[d].pc = "delay"
    /\ DirectLoopHead(d, direct[d], direct[d].i + 1, early)
    /\ RepliesAfter(d, 0)
    /\ UNCHANGED << formVars, previewModal, campRun, pc, idx, runArgs, lastDelay, storage,
                    storageQueue, progress, outcome, attempted, results, delaysElapsed,
                    stopReq, pauseHist, machineVars, startMedia, libVars >>

\* ------------------------------------------------------------------------
\* The bounded DOM polling loops
\* ------------------------------------------------------------------------
\* default maxAttempts of findElementWithRetry
FindRetryDefault == 10
\* attempts of the file input loop of attachMediaAndSend
FileInputAttempts == 5
\* maxAttempts of the preview loop of attachMediaAndSend
PreviewAttempts == 60
\* the validation loop of openChatBySearch
MAX_COMPOSER_CHECK_ATTEMPTS == 20
VALIDATION_SKIP_THRESHOLD == 15

PollStages == { "findElementWithRetry", "fileInput", "preview", "chatOpen" }

\* values of the maxAttempts argument of findElementWithRetry: its default and
\* two small ones
RetryBudgets == { 0, 1, FindRetryDefault }

\* the attempt budgets a stage can run with
BudgetsOf(stage) ==
  CASE stage = "findElementWithRetry" -> RetryBudgets
    [] stage = "fileInput" -> { FileInputAttempts }
    [] stage = "preview" -> { PreviewAttempts }
    [] stage = "chatOpen" -> { MAX_COMPOSER_CHECK_ATTEMPTS }

\* the loops that sleep before each query (the others sleep after it)
SleepsFirst(stage) == stage \in { "preview", "chatOpen" }

\* what a stage yields when its loop ends without the element
Exhausted(stage) == IF stage = "findElementWithRetry" THEN "notFound" ELSE "failed"

\* a loop condition that is off by two
PollCondOffByTwo(i, max) == i < max + 2

\* the condition of the for loop of a polling stage
PollCond(i, max) == i < max

\* a validation loop that never gives up on the title
PollAcceptsNoSkip(stage, i, element, correct) ==
  IF stage = "chatOpen" THEN element /\ correct ELSE element

\* whether the query of attempt i ends the loop with success; composer / element:
\* the element is in the DOM at this query; correct: the chat title matches
PollAccepts(stage, i, element, correct) ==
  IF stage = "chatOpen"
    THEN element /\ (correct \/ i > VALIDATION_SKIP_THRESHOLD)
    ELSE element

\* a stage is entered
PollStart ==
  \E stage \in PollStages :
    \E max \in BudgetsOf(stage) :
      /\ poll.stage = "none"
      /\ poll' = [stage |-> stage, max |-> max, i |-> 0, queries |-> 0, seen |-> FALSE,
                  result |-> IF SleepsFirst(stage) /\ ~PollCond(0, max)
                               THEN Exhausted(stage) ELSE "pending"]
      /\ UNCHANGED << campVars, chat, rate, ins, calc >>

\* one turn of the loop of the stage: its query and its sleep
PollStep ==
  /\ poll.result = "pending"
  /\ IF PollCond(poll.i, poll.max)
       THEN \E element \in BOOLEAN, correct \in BOOLEAN :
              IF PollAccepts(poll.stage, poll.i, element, correct)
                THEN poll' = [poll EXCEPT !.queries = @ + 1, !.seen = TRUE,
                                          !.result = "found"]
                ELSE poll' = [poll EXCEPT !.queries = @ + 1, !.i = @ + 1,
                                          !.seen = @ \/ element,
                                          !.result =
                                            IF SleepsFirst(poll.stage)
                                               /\ ~PollCond(poll.i + 1, poll.max)
                                              THEN Exhausted(poll.stage) ELSE "pending"]
       ELSE poll' = [poll EXCEPT !.result = Exhausted(poll.stage)]
  /\ UNCHANGED << campVars, chat, rate, ins, calc >>

\* the caller of the stage goes on
PollReturn ==
  /\ poll.stage # "none"
  /\ poll.result # "pending"
  /\ poll' = PollIdle
  /\ UNCHANGED << campVars, chat, rate, ins, calc >>

PollNext == PollStart \/ PollStep \/ PollReturn

\* ------------------------------------------------------------------------
\* openChatBySearch: the search and the validation loop
\* ------------------------------------------------------------------------
\* last digits of the target the chat title is matched on
PHONE_SUFFIX_MATCH_LENGTH == 8

\* the digits of the number of an entry (e.number.replace(/[^\d]/g, '')): entry j of
\* the model stands for the number +55 11 9876-5j
PhoneDigits(e) == << 5, 5, 1, 1, 9, 8, 7, 6, 5, e.number >>

\* String.prototype.includes on digit strings
Includes(s, t) == \E k \in 0..(Len(s) - Len(t)) : SubSeq(s, k + 1, k + Len(t)) = t

\* s.slice(-n)
SliceLast(s, n) == IF Len(s) <= n THEN s ELSE SubSeq(s, Len(s) - n + 1, Len(s))

\* isCorrectChat of the validation loop
isCorrectChat(titleDigits, digits) ==
  \/ Includes(titleDigits, SliceLast(digits, PHONE_SUFFIX_MATCH_LENGTH))
  \/ Includes(digits, SliceLast(titleDigits, PHONE_SUFFIX_MATCH_LENGTH))
  \/ titleDigits = digits

\* the digits of the titles the open chat can show (getChatTitle().replace(/\D/g, '')):
\* a title without digits (a saved contact's name, 'chat_desconhecido'), the target in
\* international and in national format, another number, and names with one digit
TitleDigits(digits) ==
  { << >>, digits, SliceLast(digits, PHONE_SUFFIX_MATCH_LENGTH),
    << 5, 5, 1, 1, 9, 8, 7, 6, 4, 0 >>, << 0 >>, << 5 >> }

\* a validation loop whose exhaustion counts as an opened chat
ChatExhaustedAccepts == "opened"

\* the end of the validation loop without an accepted chat: throw new Error('Chat não abriu ...')
ChatExhausted == "chatNotOpened"

\* openChatBySearch, from its first sleep to the click on a search result and the
\* clearing of the search box; rows: a result row exists
OpenChatStart ==
  /\ pc = "nav"
  /\ chat.stage = "none"
  /\ \E rows \in BOOLEAN :
       chat' = IF rows
                 THEN [stage |-> "loop", digits |-> PhoneDigits(runEntries[idx + 1]), i |-> 0,
                       seen |-> FALSE, always |-> TRUE, title |-> << >>, result |-> "pending"]
                 ELSE [stage |-> "search", digits |-> PhoneDigits(runEntries[idx + 1]), i |-> 0,
                       seen |-> FALSE, always |-> TRUE, title |-> << >>, result |-> "noResults"]
  /\ UNCHANGED << campVars, poll, rate, ins, calc >>

\* one turn of the validation loop: sleep(COMPOSER_CHECK_DELAY_MS) elapsed, findComposer
\* and getChatTitle are read
OpenChatPoll ==
  /\ chat.stage = "loop"
  /\ chat.result = "pending"
  /\ \E composer \in BOOLEAN, titleDigits \in TitleDigits(chat.digits) :
       IF PollAccepts("chatOpen", chat.i, composer, isCorrectChat(titleDigits, chat.digits))
         THEN chat' = [chat EXCEPT !.seen = TRUE, !.title = titleDigits, !.result = "opened"]
         ELSE chat' = [chat EXCEPT !.seen = @ \/ composer, !.always = @ /\ composer,
                                   !.i = @ + 1,
                                   !.result = IF PollCond(chat.i + 1, MAX_COMPOSER_CHECK_ATTEMPTS)
                                                THEN "pending" ELSE ChatExhausted]
  /\ UNCHANGED << campVars, poll, rate, ins, calc >>

\* openChatBySearch settles: executeDomCampaign goes on after its await, or in its catch
OpenChatReturn ==
  /\ pc = "nav"
  /\ chat.stage # "none"
  /\ chat.result # "pending"
  /\ chat' = ChatIdle
  /\ IF chat.result = "opened"
       THEN /\ pc' = "compose"
            /\ UNCHANGED << idx, campRun, results, progress, storageQueue >>
       ELSE Finish(idx, FALSE, storageQueue)
  /\ UNCHANGED << formVars, previewModal, runArgs, lastDelay, storage, outcome, attempted,
                  delaysElapsed, stopReq, pauseHist, direct, poll, rate, ins, calc,
                  replies, startMedia, libVars >>

\* ------------------------------------------------------------------------
\* The rate limiter: checkRateLimit and recordMessageSent
\* ------------------------------------------------------------------------
\* STEALTH_CONFIG.maxMessagesPerHour
maxMessagesPerHour == 30
\* the window of checkRateLimit, in milliseconds
OneHourMs == 3600000

\* the amounts of time, in milliseconds, that pass between two calls
ClockDeltas == { 1, OneHourMs }

\* a checkRateLimit that removes nothing
PruneNothing(w, oneHourAgo) == w

\* while (messageTimestamps.length && messageTimestamps[0] < oneHourAgo) shift()
RECURSIVE Prune(_, _)
Prune(w, oneHourAgo) ==
  IF w # << >> /\ Head(w) < oneHourAgo THEN Prune(Tail(w), oneHourAgo) ELSE w

\* a limit that lets one more message through
RateAllowsOneMore(n) == n <= maxMessagesPerHour

\* messageTimestamps.length < STEALTH_CONFIG.maxMessagesPerHour
RateAllows(n) == n < maxMessagesPerHour

\* checkRateLimit()
checkRateLimit ==
  /\ rate' = [rate EXCEPT !.window = Prune(rate.window, rate.now - OneHourMs),
                          !.allowed = RateAllows(Len(Prune(rate.window, rate.now - OneHourMs))),
                          !.last = "check"]
  /\ UNCHANGED << campVars, poll, chat, ins, calc >>

\* recordMessageSent()
recordMessageSent ==
  /\ Len(rate.sent) < maxMessagesPerHour + MaxSendsOver
  /\ rate' = [rate EXCEPT !.window = Append(rate.window, rate.now),
                          !.sent = Append(rate.sent, rate.now),
                          !.last = "record"]
  /\ UNCHANGED << campVars, poll, chat, ins, calc >>

\* time passes: Date.now() grows
ClockAdvance ==
  /\ rate.steps < MaxClockSteps
  /\ \E d \in ClockDeltas :
       rate' = [rate EXCEPT !.now = @ + d, !.steps = @ + 1, !.last = "tick"]
  /\ UNCHANGED << campVars, poll, chat, ins, calc >>

RateNext == checkRateLimit \/ recordMessageSent \/ ClockAdvance

\* the limiter after a call of checkRateLimit() and after a call of recordMessageSent()
AfterCheck(r) ==
  [r EXCEPT !.window = Prune(r.window, r.now - OneHourMs),
            !.allowed = RateAllows(Len(Prune(r.window, r.now - OneHourMs))),
            !.last = "check"]

AfterRecord(r) ==
  [r EXCEPT !.window = Append(r.window, r.now), !.sent = Append(r.sent, r.now),
            !.last = "record"]

\* the text branch of a campaign run reaches clickSend(true): checkRateLimit(), and when
\* it allows, the click on the send button and recordMessageSent() in the same task;
\* otherwise the throw of 'Rate limit atingido'
TextSend ==
  /\ Len(rate.sent) < maxMessagesPerHour + MaxSendsOver
  /\ rate' = IF AfterCheck(rate).allowed THEN AfterRecord(AfterCheck(rate))
                                        ELSE AfterCheck(rate)
  /\ UNCHANGED << campVars, poll, chat, ins, calc >>

\* the media branch of a campaign run: attachMediaAndSend clicked the send button of
\* the preview, and after sleep(500) the run calls recordMessageSent()
MediaSend ==
  /\ Len(rate.sent) < maxMessagesPerHour + MaxSendsOver
  /\ rate' = AfterRecord(rate)
  /\ UNCHANGED << campVars, poll, chat, ins, calc >>

\* the sends of the campaign runs of a tab, one after the other, as time passes
DispatchNext == TextSend \/ MediaSend \/ ClockAdvance

SpecDispatch == Init /\ [][DispatchNext]_vars

\* ------------------------------------------------------------------------
\* insertIntoComposer
\* ------------------------------------------------------------------------
\* the texts insertIntoComposer is called with (each shorter than 20 characters)
InsTexts == { << >>, << " " >>, << "Oi" >>, << " ", "Oi" >>, << "Oi", " ", "Ana" >> }

\* (humanized, stealthMode): fast is (false, false)
InsModes == { "fast", "humanized", "stealth" }

\* what the composer holds when a strategy reads it back
BoxContents(t) == { << >>, t, << "x" >> \o t, << "zzz" >> }

\* a guard that lets every text through
NoTextNever(t) == FALSE

\* if (!t): the text is the empty string
NoText(t) == t = << >>

\* the read-back check of the first two strategies; t.slice(0, Math.min(20, t.length))
\* is t itself for the texts of the model
ReadBackOk(inserted, t) == Trim(inserted) = Trim(t) \/ Includes(inserted, t)

\* one strategy of the fast mode was run: its name and how it ended
Tried(strategy, ended) == [m |-> strategy, outcome |-> ended]

\* the third strategy, run in the same task as the failed second one; threw: the
\* assignment or a dispatchEvent threw
AssignDirectly(r, threw) ==
  IF threw
    THEN [r EXCEPT !.tried = Append(@, Tried("assign", "threw")), !.pc = "done",
                   !.result = "InsertionFailed"]
    ELSE [r EXCEPT !.tried = Append(@, Tried("assign", "ok")), !.box = r.text,
                   !.pc = "done", !.result = "ok"]

\* insertIntoComposer(text, humanized, stealthMode) up to its first suspension
InsertCall ==
  /\ ins.pc = "idle"
  /\ \E t \in InsTexts, mode \in InsModes, composer \in BOOLEAN :
       ins' = IF ~composer
                THEN [InsIdle EXCEPT !.pc = "done", !.mode = mode, !.text = t,
                                     !.result = "ComposerNotFound"]
              ELSE IF NoText(t)
                THEN [InsIdle EXCEPT !.pc = "done", !.mode = mode, !.composer = TRUE,
                                     !.text = t, !.result = "EmptyMessage"]
              ELSE [InsIdle EXCEPT !.pc = IF mode = "fast" THEN "native" ELSE "typing",
                                   !.mode = mode, !.composer = TRUE, !.text = t,
                                   !.result = "pending"]
  /\ UNCHANGED << campVars, poll, chat, rate, calc >>

\* humanType / humanizedType typed the text: return true without a read-back
InsertTyped ==
  /\ ins.pc = "typing"
  /\ \E box \in BoxContents(ins.text) :
       ins' = [ins EXCEPT !.pc = "done", !.box = box, !.result = "ok"]
  /\ UNCHANGED << campVars, poll, chat, rate, calc >>

\* fast mode, after the composer was cleared: strategy 1 (execCommand insertText) and
\* its read-back; when it is not confirmed, strategy 2 starts and suspends
InsertNative ==
  /\ ins.pc = "native"
  /\ \E threw \in BOOLEAN, box \in BoxContents(ins.text) :
       ins' = IF threw
                THEN [ins EXCEPT !.tried = Append(@, Tried("native", "threw")),
                                 !.pc = "paste"]
              ELSE IF ReadBackOk(box, ins.text)
                THEN [ins EXCEPT !.tried = Append(@, Tried("native", "ok")), !.box = box,
                                 !.pc = "done", !.result = "ok"]
              ELSE [ins EXCEPT !.tried = Append(@, Tried("native", "mismatch")),
                               !.box = << >>, !.pc = "paste"]
  /\ UNCHANGED << campVars, poll, chat, rate, calc >>

\* strategy 2 (clipboard.writeText and paste) and its read-back; when it is not
\* confirmed, strategy 3 (direct assignment) runs and the call settles
InsertPaste ==
  /\ ins.pc = "paste"
  /\ \E threw \in BOOLEAN, box \in BoxContents(ins.text), threw3 \in BOOLEAN :
       ins' = IF threw
                THEN AssignDirectly([ins EXCEPT !.tried = Append(@, Tried("paste", "threw"))],
                                    threw3)
              ELSE IF ReadBackOk(box, ins.text)
                THEN [ins EXCEPT !.tried = Append(@, Tried("paste", "ok")), !.box = box,
                                 !.pc = "done", !.result = "ok"]
              ELSE AssignDirectly([ins EXCEPT !.tried = Append(@, Tried("paste", "mismatch")),
                                              !.box = box], threw3)
  /\ UNCHANGED << campVars, poll, chat, rate, calc >>

\* the caller of insertIntoComposer goes on
InsertReturn ==
  /\ ins.pc = "done"
  /\ ins' = InsIdle
  /\ UNCHANGED << campVars, poll, chat, rate, calc >>

InsertNext == InsertCall \/ InsertTyped \/ InsertNative \/ InsertPaste \/ InsertReturn

\* ------------------------------------------------------------------------
\* Calls of the pure functions
\* ------------------------------------------------------------------------
\* the placeholder tokens of a message template
Placeholders == { "{{nome}}", "{{numero}}" }

\* the atoms of the message templates
TemplateAtoms == { "Oi", " " } \cup Placeholders

Templates == UNION { [1..n -> TemplateAtoms] : n \in 0..MaxTemplateLen }

\* names parseCampaignLines yields (parts[1], trimmed): any text without a comma or a
\* line break, so also the text of a placeholder or a $ pattern
ParsedNames ==
  { << >>, << "Ana" >>, << "Ana", " ", "B" >>, << "{{nome}}" >>, << "{{numero}}" >>,
    << "$&" >>, << "R", "$$" >>, << "$`" >>, << "$'" >>, << "$" >> }

\* the arguments of the applyVars calls
ApplyVarsInputs ==
  { << m, [number |-> j, name |-> nm] >> : m \in Templates, j \in 1..MaxContacts,
                                           nm \in ParsedNames }

\* a call of fn with argument x that has not run yet
Call(fn, x) == [fn |-> fn, input |-> x, output |-> << >>, done |-> FALSE]

\* applyVars(msg, entry) is evaluated
ApplyVarsCall ==
  /\ calc.fn = "applyVars"
  /\ ~calc.done
  /\ calc' = [calc EXCEPT !.output = applyVars(calc.input[1], calc.input[2]), !.done = TRUE]
  /\ UNCHANGED << campVars, poll, chat, rate, ins >>

\* the characters of a phone text: digits, the plus sign, and "-" for any other character
DigitChars == { "0", "1", "2", "3", "4", "5", "6", "7", "8", "9" }

PhoneChars == { "5", "1", "+", "-" }

\* shortest text starting with 55 that is taken to carry the country code
CountryCodeMinLen == 12

\* n times the digit 1
Ones(n) == [k \in 1..n |-> "1"]

\* the texts normalizePhoneNumber is applied to ('' also stands for null and undefined)
PhoneTexts ==
  { h \o Ones(n) : h \in UNION { [1..k -> PhoneChars] : k \in 0..MaxPhoneHead },
                   n \in 0..(CountryCodeMinLen + 1) }

\* s.replace(/[^\d+]/g, '')
RECURSIVE KeepDigitsPlus(_)
KeepDigitsPlus(s) ==
  IF s = << >> THEN << >>
  ELSE IF Head(s) \in DigitChars \cup { "+" } THEN << Head(s) >> \o KeepDigitsPlus(Tail(s))
  ELSE KeepDigitsPlus(Tail(s))

\* String.prototype.startsWith
StartsWith(s, p) == Len(s) >= Len(p) /\ SubSeq(s, 1, Len(p)) = p

\* a test for the plus sign that never finds it
HasPlusNever(digits) == FALSE

\* digits.startsWith('+')
HasPlus(digits) == StartsWith(digits, << "+" >>)

normalizePhoneNumber(phone) ==
  LET digits == KeepDigitsPlus(phone)
  IN  IF HasPlus(digits) THEN digits
      ELSE IF StartsWith(digits, << "5", "5" >>) /\ Len(digits) >= CountryCodeMinLen
        THEN << "+" >> \o digits
      ELSE << "+", "5", "5" >> \o digits

\* normalizePhoneNumber(phone) is evaluated
NormalizeCall ==
  /\ calc.fn = "normalizePhoneNumber"
  /\ ~calc.done
  /\ calc' = [calc EXCEPT !.output = normalizePhoneNumber(calc.input), !.done = TRUE]
  /\ UNCHANGED << campVars, poll, chat, rate, ins >>

\* the characters of the contacts textarea: a digit, the plus sign, a letter, the
\* comma, the line break and the blank
RawChars == { "1", "+", "A", ",", "\n", " " }

\* the texts parseCampaignLines is applied to
RawTexts == UNION { [1..n -> RawChars] : n \in 0..MaxRawLen }

\* the position of the first sep in s from position k on, or 0
RECURSIVE IndexOf(_, _, _)
IndexOf(s, sep, k) ==
  IF k > Len(s) THEN 0 ELSE IF s[k] = sep THEN k ELSE IndexOf(s, sep, k + 1)

\* String.prototype.split(sep)
RECURSIVE Split(_, _)
Split(s, sep) ==
  LET k == IndexOf(s, sep, 1)
  IN  IF k = 0 THEN << s >>
      ELSE << SubSeq(s, 1, k - 1) >> \o Split(SubSeq(s, k + 1, Len(s)), sep)

\* lines.map(l => l.trim()).filter(Boolean)
RECURSIVE TrimmedNonEmpty(_)
TrimmedNonEmpty(ls) ==
  IF ls = << >> THEN << >>
  ELSE IF Trim(Head(ls)) = << >> THEN TrimmedNonEmpty(Tail(ls))
  ELSE << Trim(Head(ls)) >> \o TrimmedNonEmpty(Tail(ls))

\* the entry pushed for a line, as a list of zero or one entry
LineEntry(line) ==
  LET parts  == Split(line, ",")
      number == KeepDigitsPlus(Trim(parts[1]))
      name   == IF Len(parts) >= 2 THEN Trim(parts[2]) ELSE << >>
  IN  IF number = << >> THEN << >>
      ELSE << [number |-> IF StartsWith(number, << "+" >>) THEN number ELSE << "+" >> \o number,
               name |-> name] >>

\* the entries pushed by the first loop of parseCampaignLines
RECURSIVE LineEntries(_)
LineEntries(ls) ==
  IF ls = << >> THEN << >> ELSE LineEntry(Head(ls)) \o LineEntries(Tail(ls))

\* a map that keeps the value a key was first set to
MapSetKeepsFirst(m, e) ==
  IF \E k \in 1..Len(m) : m[k].number = e.number THEN m ELSE Append(m, e)

\* Map.prototype.set(e.number, e) on a map held as the list of its values in
\* insertion order
MapSet(m, e) ==
  IF \E k \in 1..Len(m) : m[k].number = e.number
    THEN [k \in 1..Len(m) |-> IF m[k].number = e.number THEN e ELSE m[k]]
    ELSE Append(m, e)

\* for (const e of entries) map.set(e.number, e), from the map m on
RECURSIVE MapOf(_, _)
MapOf(m, es) == IF es = << >> THEN m ELSE MapOf(MapSet(m, Head(es)), Tail(es))

parseCampaignLines(raw) == MapOf(<< >>, LineEntries(TrimmedNonEmpty(Split(raw, "\n"))))

\* parseCampaignLines(raw) is evaluated
ParseCall ==
  /\ calc.fn = "parseCampaignLines"
  /\ ~calc.done
  /\ calc' = [calc EXCEPT !.output = parseCampaignLines(calc.input), !.done = TRUE]
  /\ UNCHANGED << campVars, poll, chat, rate, ins >>

\* ------------------------------------------------------------------------
\* Specifications
\* ------------------------------------------------------------------------
\* the steps of a UI campaign run and its controls
RunNext ==
  \/ StartClick
  \/ PreviewCancel
  \/ PreviewConfirm
  \/ InitSaveDone
  \/ PausedWake
  \/ NavDone
  \/ ComposeStep
  \/ MediaDone
  \/ TextDone
  \/ FinallySaveDone
  \/ DelayDone
  \/ ClearDone
  \/ PauseClick
  \/ StopClick

\* the steps of the runs started by runtime messages
DirectNext ==
  \/ ScheduledCampaignMessage
  \/ TeamMessage
  \/ DirectNavDone
  \/ DirectComposeStep
  \/ DirectMediaDone
  \/ DirectTextDone
  \/ DirectDelayDone

\* the form as the user filled it before the runtime messages arrive
InitTab ==
  /\ campNumbers = [j \in 1..MaxContacts |-> Entry(j)]
  /\ campMsg = << "Oi", " ", "{{nome}}" >>
  /\ campMediaPayload \in { "null", "dataB64" }
  /\ campDelayMin = NumField(DelayMinDefault)
  /\ campDelayMax = NumField(DelayMaxDefault)
  /\ InitEngine
  /\ calc = CalcIdle

\* the edits of the form
FormNext ==
  \/ EditNumbers
  \/ EditMsg
  \/ MediaChange

\* the campaign form and the UI campaign run
Next == FormNext \/ RunNext

Spec == Init /\ [][Next]_vars

\* the UI campaign run together with the runs started by runtime messages
TabNext == RunNext \/ DirectNext

SpecTab == InitTab /\ [][TabNext]_vars

\* a UI campaign run whose chat navigation is followed step by step
ChatNext ==
  \/ StartClick
  \/ PreviewCancel
  \/ PreviewConfirm
  \/ InitSaveDone
  \/ PausedWake
  \/ OpenChatStart
  \/ OpenChatPoll
  \/ OpenChatReturn
  \/ ComposeStep
  \/ MediaDone
  \/ TextDone
  \/ FinallySaveDone
  \/ DelayDone
  \/ ClearDone
  \/ PauseClick
  \/ StopClick

SpecChat == InitTab /\ [][ChatNext]_vars

\* the rate limiter under any order of its calls and any passage of time
SpecRate == Init /\ [][RateNext]_vars

\* the calls of insertIntoComposer
SpecInsert == Init /\ [][InsertNext]_vars

\* the arguments the pure functions are called with
CalcInputs ==
  { Call("applyVars", x) : x \in ApplyVarsInputs }
    \cup { Call("normalizePhoneNumber", x) : x \in PhoneTexts }
    \cup { Call("parseCampaignLines", x) : x \in RawTexts }

InitPure ==
  /\ campNumbers = << >>
  /\ campMsg = << >>
  /\ campMediaPayload = "null"
  /\ campDelayMin = NumField(DelayMinDefault)
  /\ campDelayMax = NumField(DelayMaxDefault)
  /\ InitEngine
  /\ calc \in CalcInputs

PureNext == ApplyVarsCall \/ NormalizeCall \/ ParseCall

\* the pure functions on every argument of the model
SpecPure == InitPure /\ [][PureNext]_vars

\* ------------------------------------------------------------------------
\* The element lookups: querySelector, querySelectorAll, findElement, findComposer,
\* findSendButton
\* ------------------------------------------------------------------------
\* the selectors of one WA_SELECTORS list, in list order
MaxSelectors == 2
Selectors == 1..MaxSelectors

\* the elements of the document, numbered in document order; whatever
\* document.querySelector returns is attached, so isConnected is true of each of them
MaxElements == 2
Elements == 1..MaxElements

\* the null a lookup returns when it finds nothing
NoElement == 0

\* a document: the elements with a non-zero box (offsetWidth || offsetHeight ||
\* getClientRects().length), and the elements every selector of the list matches
Doms == [rendered : SUBSET Elements, match : [Selectors -> SUBSET Elements]]

\* the first of a set of elements in document order
FirstOf(S) == CHOOSE x \in S : \A y \in S : x <= y

\* document.querySelector(sel)
FirstMatch(dom, k) == IF dom.match[k] = {} THEN NoElement ELSE FirstOf(dom.match[k])

\* the elements of a set as a sequence in document order
RECURSIVE InOrder(_)
InOrder(S) == IF S = {} THEN << >> ELSE << FirstOf(S) >> \o InOrder(S \ { FirstOf(S) })

Range(q) == { q[j] : j \in DOMAIN q }

\* querySelector(selectors): the first match of the first selector that has one
RECURSIVE QuerySelectorFrom(_, _)
QuerySelectorFrom(dom, k) ==
  IF k > MaxSelectors THEN NoElement
  ELSE IF FirstMatch(dom, k) # NoElement THEN FirstMatch(dom, k)
  ELSE QuerySelectorFrom(dom, k + 1)

querySelector(dom) == QuerySelectorFrom(dom, 1)

\* querySelectorAll(selectors): the matches selector after selector, none twice
RECURSIVE QuerySelectorAllFrom(_, _, _)
QuerySelectorAllFrom(dom, k, found) ==
  IF k > MaxSelectors THEN found
  ELSE QuerySelectorAllFrom(dom, k + 1, found \o InOrder(dom.match[k] \ Range(found)))

querySelectorAll(dom) == QuerySelectorAllFrom(dom, 1, << >>)

\* the visibility test of findElement on the first match of selector k
FirstMatchRendered(dom, k) ==
  FirstMatch(dom, k) # NoElement /\ FirstMatch(dom, k) \in dom.rendered

\* findElement(selectorKey): the first match of the first selector whose first match
\* is rendered
RECURSIVE FindElementFrom(_, _)
FindElementFrom(dom, k) ==
  IF k > MaxSelectors THEN NoElement
  ELSE IF FirstMatchRendered(dom, k) THEN FirstMatch(dom, k)
  ELSE FindElementFrom(dom, k + 1)

findElement(dom) == FindElementFrom(dom, 1)

\* cands.find(visible): the first rendered element of a sequence
RECURSIVE FindRendered(_, _)
FindRendered(dom, cands) ==
  IF cands = << >> THEN NoElement
  ELSE IF Head(cands) \in dom.rendered THEN Head(cands)
  ELSE FindRendered(dom, Tail(cands))

\* findComposer(): findElement('composer'), else the first rendered candidate of
\* querySelectorAll, else the first candidate
findComposer(dom) ==
  IF findElement(dom) # NoElement THEN findElement(dom)
  ELSE IF querySelectorAll(dom) = << >> THEN NoElement
  ELSE IF FindRendered(dom, querySelectorAll(dom)) # NoElement
    THEN FindRendered(dom, querySelectorAll(dom))
  ELSE Head(querySelectorAll(dom))

\* findSendButton(): findElement('sendButton'), else querySelector
findSendButton(dom) ==
  IF findElement(dom) # NoElement THEN findElement(dom) ELSE querySelector(dom)

\* findElement is evaluated on a document
FindElementCall ==
  /\ calc.fn = "findElement"
  /\ ~calc.done
  /\ calc' = [calc EXCEPT !.output = findElement(calc.input), !.done = TRUE]
  /\ UNCHANGED << campVars, poll, chat, rate, ins >>

\* findComposer is evaluated on a document
FindComposerCall ==
  /\ calc.fn = "findComposer"
  /\ ~calc.done
  /\ calc' = [calc EXCEPT !.output = findComposer(calc.input), !.done = TRUE]
  /\ UNCHANGED << campVars, poll, chat, rate, ins >>

\* findSendButton is evaluated on a document
FindSendButtonCall ==
  /\ calc.fn = "findSendButton"
  /\ ~calc.done
  /\ calc' = [calc EXCEPT !.output = findSendButton(calc.input), !.done = TRUE]
  /\ UNCHANGED << campVars, poll, chat, rate, ins >>

\* last digits of the target a search-result row is matched on
SEARCH_SUFFIX_LENGTH == 6

\* the most rows the search shows
MaxRows == 2

\* the number searched for
SearchDigits == << 5, 5, 1, 1, 9, 8, 7, 6, 5, 1 >>

\* the digits of the text of a row ((el.innerText || '').replace(/\D/g, '')): a name
\* without digits, the target in international and in national format, another
\* number, and names with one digit
RowTexts ==
  { << >>, SearchDigits, SliceLast(SearchDigits, 8), << 5, 5, 1, 1, 9, 8, 7, 6, 4, 0 >>,
    << 0 >>, << 5 >> }

\* the elements querySelectorAll(WA_SELECTORS.searchResults) returns, in its order,
\* each with the digits of its text and whether it has a box
ResultRows ==
  UNION { [1..n -> [text : RowTexts, rendered : BOOLEAN]] : n \in 0..MaxRows }

\* the match of the filter on the rows
RowMatches(text, digits) ==
  \/ Includes(text, SliceLast(digits, SEARCH_SUFFIX_LENGTH))
  \/ Includes(digits, SliceLast(text, SEARCH_SUFFIX_LENGTH))

\* the positions of the rows the filter keeps, in order
RECURSIVE MatchingRows(_, _, _)
MatchingRows(rows, digits, k) ==
  IF k > Len(rows) THEN << >>
  ELSE IF RowMatches(rows[k].text, digits) THEN << k >> \o MatchingRows(rows, digits, k + 1)
  ELSE MatchingRows(rows, digits, k + 1)

\* the row openChatBySearch clicks (its position, 0 when it throws 'Nenhum resultado na
\* busca.') and the branch that clicked it; querySelector(WA_SELECTORS.searchResults)
\* is the first element of querySelectorAll
ClickedRow(rows, digits) ==
  IF MatchingRows(rows, digits, 1) # << >>
    THEN [row |-> Head(MatchingRows(rows, digits, 1)), via |-> "filter"]
  ELSE IF rows # << >> THEN [row |-> 1, via |-> "fallback"]
  ELSE [row |-> 0, via |-> "none"]

\* the result rows are filtered and one is clicked
ClickResultCall ==
  /\ calc.fn = "clickSearchResult"
  /\ ~calc.done
  /\ calc' = [calc EXCEPT !.output = ClickedRow(calc.input, SearchDigits), !.done = TRUE]
  /\ UNCHANGED << campVars, poll, chat, rate, ins >>

\* the lookups on every document of the model, and the click on every list of rows
DomInputs ==
  { Call(fn, dom) : fn \in { "findElement", "findComposer", "findSendButton" },
                    dom \in Doms }
    \cup { Call("clickSearchResult", rows) : rows \in ResultRows }

InitDom ==
  /\ campNumbers = << >>
  /\ campMsg = << >>
  /\ campMediaPayload = "null"
  /\ campDelayMin = NumField(DelayMinDefault)
  /\ campDelayMax = NumField(DelayMaxDefault)
  /\ InitEngine
  /\ calc \in DomInputs

DomNext == FindElementCall \/ FindComposerCall \/ FindSendButtonCall \/ ClickResultCall

SpecDom == InitDom /\ [][DomNext]_vars

\* the steps of executeDomCampaignDirectly that a timer or a settled promise resumes
DirectSteps ==
  \/ DirectNavDone
  \/ DirectComposeStep
  \/ DirectMediaDone
  \/ DirectTextDone
  \/ DirectDelayDone

\* the commands received by the tab and their runs; a timer that is due fires and a
\* pending promise settles
SpecMsg == InitTab /\ [][DirectNext]_vars /\ WF_vars(DirectSteps)

\* the steps of executeDomCampaign that a timer, a settled promise or a storage
\* callback resumes
RunSteps ==
  \/ InitSaveDone
  \/ PausedWake
  \/ NavDone
  \/ ComposeStep
  \/ MediaDone
  \/ TextDone
  \/ FinallySaveDone
  \/ DelayDone
  \/ ClearDone

\* the UI runs over a filled form; a timer that is due fires, a pending promise settles
\* and a storage callback is called, while the user clicks only if they choose to
SpecStop == InitTab /\ [][RunNext]_vars /\ WF_vars(RunSteps)

\* the runs started by runtime messages and the Stop button of the panel, with no UI
\* run on the tab
SchedStopNext == DirectNext \/ StopClickNoRun

SpecSchedStop == InitTab /\ [][SchedStopNext]_vars

\* the UI runs over a filled form and the clicks on Pause and Stop made at any time
ControlsNext == RunNext \/ PauseClickNoRun \/ StopClickNoRun

SpecControls == InitTab /\ [][ControlsNext]_vars

\* the values the two delay inputs are given
DelayNums == { 0, 4, 10, 130, 250 }

DelayFields == { EmptyField } \cup { NumField(n) : n \in DelayNums }

\* a filled form with every pair of values of the delay inputs
InitPacing ==
  /\ campNumbers = [j \in 1..MaxContacts |-> Entry(j)]
  /\ campMsg = << "Oi", " ", "{{nome}}" >>
  /\ campMediaPayload \in { "null", "dataB64" }
  /\ campDelayMin \in DelayFields
  /\ campDelayMax \in DelayFields
  /\ InitEngine
  /\ calc = CalcIdle

SpecPacing == InitPacing /\ [][RunNext]_vars

\* the polling loops; a timer that is due fires
SpecPoll == Init /\ [][PollNext]_vars /\ WF_vars(PollStep)

\* ------------------------------------------------------------------------
\* QueueManager (smartbot/infrastructure/queue-manager)
\* ------------------------------------------------------------------------
\* the most items that are enqueued
MaxItems == 2

\* options.concurrency || 1, options.retryAttempts || 3 of the constructor
Concurrency == 1
RetryAttemptsDefault == 3
\* options.priority || 5
PriorityDefault == 5

\* the priority and retryAttempts options of enqueue; 0 also stands for an option
\* that is not given
PriorityOptions == { 0, 1, 9 }
RetryOptions == { 0, 1 }

\* x || dflt on a number
NumberOr(x, dflt) == IF x = 0 THEN dflt ELSE x

\* `${queueName}:${item.id}`
ProcessingId(q, id) == q \o << ":", ToString(id) >>

\* Array.from(this.processing).filter(id => id.startsWith(queueName)).length
ProcessingCount(st, q) == Cardinality({ pid \in st.processing : StartsWith(pid, q) })

\* one step of a stable sort by priority: id goes behind the ids whose priority is
\* not larger
RECURSIVE InsertByPriority(_, _, _)
InsertByPriority(items, sorted, id) ==
  IF sorted # << >> /\ items[Head(sorted)].priority <= items[id].priority
    THEN << Head(sorted) >> \o InsertByPriority(items, Tail(sorted), id)
    ELSE << id >> \o sorted

\* queue.sort((a, b) => a.priority - b.priority)
RECURSIVE SortByPriority(_, _)
SortByPriority(items, queue) ==
  IF queue = << >> THEN << >>
  ELSE InsertByPriority(items, SortByPriority(items, SubSeq(queue, 1, Len(queue) - 1)),
                        queue[Len(queue)])

\* the smallest priority among the items of a queue that is not empty
MinPriority(items, queue) ==
  CHOOSE m \in { items[queue[k]].priority : k \in DOMAIN queue } :
    \A k \in DOMAIN queue : m <= items[queue[k]].priority

\* queue.unshift(item)
Requeue(items, queue, id) == << id >> \o queue

\* _processQueue(queueName) up to its first await, with its catch and finally blocks
\* when the item has no handler
RECURSIVE ProcessQueue(_, _), Caught(_, _, _), Finally(_, _, _)
ProcessQueue(st, q) ==
  IF st.queues[q] = << >> THEN st
  ELSE IF ProcessingCount(st, q) >= Concurrency THEN st
  ELSE LET id == Head(st.queues[q])
           taken == [st EXCEPT !.queues[q] = Tail(@),
                               !.processing = @ \cup { ProcessingId(q, id) },
                               !.items[id].status = "processing",
                               !.starts = Append(@, [id |-> id,
                                                     priority |-> st.items[id].priority,
                                                     best |-> MinPriority(st.items, st.queues[q]),
                                                     paused |-> st.items[id].status = "paused"])]
       IN  IF st.items[id].handler THEN [taken EXCEPT !.items[id].at = "handler"]
           ELSE Caught(taken, q, id)

\* the catch block up to its await, or through the finally block
Caught(st, q, id) ==
  IF st.items[id].currentAttempt + 1 < st.items[id].retryAttempts
    THEN [st EXCEPT !.items[id].currentAttempt = @ + 1, !.items[id].status = "retrying",
                    !.items[id].at = "sleep"]
    ELSE Finally([st EXCEPT !.items[id].currentAttempt = @ + 1,
                            !.items[id].status = "failed", !.items[id].at = "none"], q, id)

\* the finally block
Finally(st, q, id) ==
  LET freed == [st EXCEPT !.processing = @ \ { ProcessingId(q, id) }]
  IN  IF freed.queues[q] # << >> THEN ProcessQueue(freed, q) ELSE freed

\* enqueue(queueName, task, options); handler: options.handler is a function
Enqueue ==
  \E q \in QueueNames, p \in PriorityOptions, r \in RetryOptions, handler \in BOOLEAN :
    /\ Len(qm.items) < MaxItems
    /\ LET id == Len(qm.items) + 1
           items == Append(qm.items, [q |-> q, priority |-> NumberOr(p, PriorityDefault),
                                      handler |-> handler,
                                      retryAttempts |-> NumberOr(r, RetryAttemptsDefault),
                                      currentAttempt |-> 0, status |-> "queued",
                                      at |-> "none"])
       IN  qm' = ProcessQueue([qm EXCEPT !.items = items,
                                         !.queues[q] = SortByPriority(items, Append(@, id))], q)
    /\ UNCHANGED << coreVars, machineVars, idleClick, has, sm >>

\* the promise of item.handler(item.task) settles; ok: it is fulfilled
HandlerSettles ==
  \E id \in DOMAIN qm.items, ok \in BOOLEAN :
    /\ qm.items[id].at = "handler"
    /\ qm' = IF ok
               THEN Finally([qm EXCEPT !.items[id].status = "completed",
                                       !.items[id].at = "none"], qm.items[id].q, id)
               ELSE Caught(qm, qm.items[id].q, id)
    /\ UNCHANGED << coreVars, machineVars, idleClick, has, sm >>

\* the _sleep of the retry elapses: the item is put back and the finally block runs
RetrySleepDone ==
  \E id \in DOMAIN qm.items :
    /\ qm.items[id].at = "sleep"
    /\ qm' = Finally([qm EXCEPT !.queues[qm.items[id].q] = Requeue(qm.items, @, id),
                                !.items[id].at = "none"], qm.items[id].q, id)
    /\ UNCHANGED << coreVars, machineVars, idleClick, has, sm >>

\* the status of every item of a queue that is `from` becomes `to`
Restatus(st, q, from, to) ==
  [st EXCEPT !.items = [id \in DOMAIN @ |->
                          IF @[id].status = from /\ \E k \in DOMAIN st.queues[q] : st.queues[q][k] = id
                            THEN [@[id] EXCEPT !.status = to]
                            ELSE @[id]]]

\* pause(queueName)
QueuePause ==
  \E q \in QueueNames :
    /\ qm' = [Restatus(qm, q, "queued", "paused") EXCEPT !.paused = @ \cup { q }]
    /\ UNCHANGED << coreVars, machineVars, idleClick, has, sm >>

\* resume(queueName)
QueueResume ==
  \E q \in QueueNames :
    /\ qm' = ProcessQueue([Restatus(qm, q, "paused", "queued") EXCEPT !.paused = @ \ { q }], q)
    /\ UNCHANGED << coreVars, machineVars, idleClick, has, sm >>

\* the steps of a QueueManager that a settled promise or a timer resumes
QueueSteps == HandlerSettles \/ RetrySleepDone

QueueNext == Enqueue \/ HandlerSettles \/ RetrySleepDone \/ QueuePause \/ QueueResume

\* a QueueManager and its callers; a handler's promise settles and a timer that is due
\* fires
SpecQueue == Init /\ [][QueueNext]_vars /\ WF_vars(QueueSteps)

\* ------------------------------------------------------------------------
\* HumanAssistanceSystem (smartbot-ia-core.js)
\* ------------------------------------------------------------------------
\* the most escalations in the escalationQueue
MaxEscalations == 2

\* info.maxLoad || 5
MaxLoadDefault == 5

\* the info.maxLoad and info.skills of registerAgent (0: not given), the statuses of
\* updateAgentStatus, the priorities and requiredSkills of escalate
MaxLoadOptions == { 0, 1 }
SkillSets == { {}, { "vendas" } }
AgentStatuses == { "available", "offline" }
Priorities == { "normal", "urgent" }

\* priorityOrder
PriorityOrder(p) == IF p = "urgent" THEN 3 ELSE IF p = "high" THEN 2
                    ELSE IF p = "normal" THEN 1 ELSE 0

\* the position of agent a in the agents Map, 0 when it has none
AgentIndex(agents, a) ==
  IF \E k \in DOMAIN agents : agents[k].id = a
    THEN CHOOSE k \in DOMAIN agents : agents[k].id = a
    ELSE 0

\* this.agents.set(agentId, agent): an id the Map holds keeps its position
AgentsSet(agents, agent) ==
  IF AgentIndex(agents, agent.id) = 0 THEN Append(agents, agent)
  ELSE [agents EXCEPT ![AgentIndex(agents, agent.id)] = agent]

\* candidates.sort((a, b) => a.currentLoad - b.currentLoad)[0] on positions of the Map
LeastLoaded(agents, candidates) ==
  CHOOSE k \in candidates :
    \A j \in candidates : \/ agents[k].currentLoad < agents[j].currentLoad
                          \/ agents[k].currentLoad = agents[j].currentLoad /\ k <= j

\* findSuitableAgent(requiredSkills): the position of the agent found, 0 for null
findSuitableAgent(agents, requiredSkills) ==
  LET availableAgents == { k \in DOMAIN agents : /\ agents[k].status = "available"
                                                  /\ agents[k].currentLoad < agents[k].maxLoad }
      skillMatches == { k \in availableAgents : requiredSkills \subseteq agents[k].skills }
  IN  IF availableAgents = {} THEN 0
      ELSE IF requiredSkills = {} THEN LeastLoaded(agents, availableAgents)
      ELSE IF skillMatches # {} THEN LeastLoaded(agents, skillMatches)
      ELSE CHOOSE k \in availableAgents : \A j \in availableAgents : k <= j

\* one step of the stable sort of the escalationQueue: e goes behind the escalations
\* whose priority is not lower
RECURSIVE InsertEscalation(_, _)
InsertEscalation(sorted, e) ==
  IF sorted # << >> /\ PriorityOrder(Head(sorted).priority) >= PriorityOrder(e.priority)
    THEN << Head(sorted) >> \o InsertEscalation(Tail(sorted), e)
    ELSE << e >> \o sorted

\* assignToAgent(escalation) for the escalation at position k of the queue
assignToAgent(st, k) ==
  LET e == st.escalationQueue[k]
      found == findSuitableAgent(st.agents, e.requiredSkills)
  IN  IF found = 0 THEN st
      ELSE [st EXCEPT !.escalationQueue[k].status = "assigned",
                      !.escalationQueue[k].assignedTo = st.agents[found].id,
                      !.agents[found].currentLoad = @ + 1,
                      !.activeHandoffs[e.conversationId] = st.agents[found].id]

\* registerAgent(agentId, info)
RegisterAgent ==
  \E a \in AgentIds, skills \in SkillSets, m \in MaxLoadOptions :
    /\ has' = [has EXCEPT !.agents = AgentsSet(@, [id |-> a, status |-> "available",
                                                   skills |-> skills, currentLoad |-> 0,
                                                   maxLoad |-> NumberOr(m, MaxLoadDefault)])]
    /\ UNCHANGED << coreVars, machineVars, idleClick, qm, sm >>

\* escalate(conversationId, reason, priority, requiredSkills)
Escalate ==
  \E c \in ConversationIds, p \in Priorities, requiredSkills \in SkillSets :
    /\ Len(has.escalationQueue) < MaxEscalations
    /\ LET e == [conversationId |-> c, priority |-> p, requiredSkills |-> requiredSkills,
                 status |-> "pending", assignedTo |-> NoAgent]
           queue == InsertEscalation(has.escalationQueue, e)
           k == CHOOSE j \in DOMAIN queue :
                  queue[j] = e /\ (j = Len(queue) \/ queue[j + 1] # e)
       IN  has' = assignToAgent([has EXCEPT !.escalationQueue = queue], k)
    /\ UNCHANGED << coreVars, machineVars, idleClick, qm, sm >>

\* completeHandoff(conversationId)
CompleteHandoff ==
  \E c \in ConversationIds :
    /\ has' = IF has.activeHandoffs[c] = NoAgent THEN has
              ELSE LET k == AgentIndex(has.agents, has.activeHandoffs[c])
                   IN  [has EXCEPT !.agents[k].currentLoad = Max2(0, @ - 1),
                                   !.activeHandoffs[c] = NoAgent,
                                   !.escalationQueue =
                                     SelectSeq(@, LAMBDA e : e.conversationId # c)]
    /\ UNCHANGED << coreVars, machineVars, idleClick, qm, sm >>

\* updateAgentStatus(agentId, status)
UpdateAgentStatus ==
  \E a \in AgentIds, status \in AgentStatuses :
    /\ has' = IF AgentIndex(has.agents, a) = 0 THEN has
              ELSE [has EXCEPT !.agents[AgentIndex(has.agents, a)].status = status]
    /\ UNCHANGED << coreVars, machineVars, idleClick, qm, sm >>

HumanNext == RegisterAgent \/ Escalate \/ CompleteHandoff \/ UpdateAgentStatus

\* a HumanAssistanceSystem and its callers
SpecHuman == Init /\ [][HumanNext]_vars

\* ------------------------------------------------------------------------
\* SchedulerManager (smartbot/infrastructure/scheduler-manager)
\* ------------------------------------------------------------------------
\* the most task objects and the most timers that are created
MaxTasks == 2
MaxTimers == 3

\* _startInterval(taskId)
StartInterval(st, t) ==
  IF st.tasks[t] = 0 \/ ~st.objects[st.tasks[t]].enabled THEN st
  ELSE [st EXCEPT !.created = @ + 1,
                  !.live = @ \cup { [n |-> st.created + 1, obj |-> st.tasks[t]] },
                  !.timers[t] = st.created + 1]

\* whether the call creates a timer
StartsTimer(st, t) == StartInterval(st, t).created # st.created

\* clearTimeout(timer); clearInterval(timer); this.timers.delete(taskId) when the Map
\* holds a timer of the task
ClearTimer(st, t) ==
  IF st.timers[t] = 0 THEN st
  ELSE [st EXCEPT !.live = { l \in @ : l.n # st.timers[t] }, !.timers[t] = 0]

\* scheduleInterval(taskId, handler, interval)
ScheduleInterval ==
  \E t \in TaskIds :
    /\ Len(sm.objects) < MaxTasks
    /\ sm.created < MaxTimers
    /\ sm' = StartInterval([sm EXCEPT !.objects = Append(@, [id |-> t, enabled |-> TRUE,
                                                              cancelled |-> FALSE]),
                                      !.tasks[t] = Len(sm.objects) + 1,
                                      !.last = 0], t)
    /\ UNCHANGED << coreVars, machineVars, idleClick, qm, has >>

\* cancel(taskId)
SchedCancel ==
  \E t \in TaskIds :
    /\ sm' = IF sm.tasks[t] = 0 THEN [sm EXCEPT !.last = 0]
             ELSE [ClearTimer(sm, t) EXCEPT !.objects[sm.tasks[t]].cancelled = TRUE,
                                            !.tasks[t] = 0, !.last = 0]
    /\ UNCHANGED << coreVars, machineVars, idleClick, qm, has >>

\* pause(taskId)
SchedPause ==
  \E t \in TaskIds :
    /\ sm' = IF sm.tasks[t] = 0 THEN [sm EXCEPT !.last = 0]
             ELSE [ClearTimer(sm, t) EXCEPT !.objects[sm.tasks[t]].enabled = FALSE,
                                            !.last = 0]
    /\ UNCHANGED << coreVars, machineVars, idleClick, qm, has >>

\* resume(taskId)
SchedResume ==
  \E t \in TaskIds :
    /\ LET enabled == IF sm.tasks[t] = 0 THEN sm
                      ELSE [sm EXCEPT !.objects[sm.tasks[t]].enabled = TRUE]
       IN  /\ StartsTimer(enabled, t) => sm.created < MaxTimers
           /\ sm' = [StartInterval(enabled, t) EXCEPT !.last = 0]
    /\ UNCHANGED << coreVars, machineVars, idleClick, qm, has >>

\* a timer of setInterval fires: its callback runs _executeTask(task), which invokes
\* task.handler(), when the task object it closes over is enabled
IntervalFires ==
  \E l \in sm.live :
    /\ sm' = [sm EXCEPT !.last = IF sm.objects[l.obj].enabled THEN l.obj ELSE 0]
    /\ UNCHANGED << coreVars, machineVars, idleClick, qm, has >>

SchedulerNext == ScheduleInterval \/ SchedCancel \/ SchedPause \/ SchedResume \/ IntervalFires

\* a SchedulerManager, its callers and the timers of the page
SpecScheduler == Init /\ [][SchedulerNext]_vars

\* ------------------------------------------------------------------------
\* Properties
\* ------------------------------------------------------------------------
\* the number of campaign runs that are processing contacts
ActiveRuns ==
  (IF pc # "idle" THEN 1 ELSE 0) + Cardinality({ d \in DirectIds : direct[d].pc # "idle" })

\* C1: at most one campaign run is active on the tab at any time, whichever way
\* the runs are started (the form, the scheduled-campaign message, the team message).
C1_AtMostOneRun == ActiveRuns <= 1

\* C2: the list positions attempted are 1, 2, ... in order, each once, and a run that
\* was never stopped ends with every position of its list attempted and ended,
\* whatever the contacts before it did.
C2_EveryContactAttempted ==
  /\ \A j \in 1..Len(attempted) : attempted[j] = j
  /\ (outcome # "none" /\ ~stopReq) =>
       (Len(attempted) = Total /\ Len(results) = Total /\ outcome = "completed")

C2_Witness ==
  /\ outcome = "completed"
  /\ ~stopReq
  /\ Total = MaxContacts
  /\ Len(attempted) = Total
  /\ ~results[1]

\* C3: once stop was requested during a run, no further contact is begun, and
\* the final status of that run is aborted, never completed.
C3_StopHalts ==
  [][ /\ (stopReq /\ stopReq') => attempted' = attempted
      /\ (stopReq' /\ outcome' # "none") => outcome' = "aborted" ]_vars

C3_Witness ==
  /\ stopReq
  /\ outcome = "aborted"
  /\ Len(attempted) >= 1
  /\ Len(attempted) < Total
  /\ Len(results) = Len(attempted)

\* C4: while a run is paused the cursor is at most one past its value at the
\* moment pause was requested, and not past it at all unless a contact was in
\* flight at that moment.
C4_PauseHolds ==
  (campRun.running /\ campRun.paused) =>
    campRun.cursor <= cursorAtPause + (IF inFlightAtPause THEN 1 ELSE 0)

C4_Witness ==
  /\ campRun.running
  /\ campRun.paused
  /\ inFlightAtPause
  /\ pc = "paused"
  /\ campRun.cursor = cursorAtPause + 1
  /\ campRun.cursor < Total

\* the validation of the start request, on the values a run starts with
ValidRunInput(entries, msg, media) ==
  /\ Len(entries) # 0
  /\ (msg # << >> \/ (Truthy(media) /\ Base64Of(media) # << >>))

\* C5: no run enters the Running state with an empty entry list, or with both an
\* empty message and no media payload.
C5_RunsAreValidated ==
  [][ (~campRun.running /\ campRun'.running) =>
        ValidRunInput(runEntries', runMsg', campMediaPayload') ]_vars

\* no storage call that writes the record is pending
NoSavePending == \A n \in 1..Len(storageQueue) : storageQueue[n].op # "set"

\* C6: the cursor equals the number of contacts attempted so far, the persisted
\* record carries the cursor once the save after a contact has completed, and within
\* a run the cursor only grows, by exactly one for each contact attempted.
C6_CursorPersisted ==
  [][ /\ campRun'.cursor = Len(results')
      /\ (pc' # "idle" /\ NoSavePending') =>
           (storage' # NoRecord /\ storage'.cursor = campRun'.cursor)
      /\ \/ campRun'.cursor = campRun.cursor /\ results' = results
         \/ campRun'.cursor = campRun.cursor + 1 /\ Len(results') = Len(results) + 1
         \/ ~campRun.running /\ campRun'.running /\ campRun'.cursor = 0 ]_vars

C6_Witness ==
  /\ pc = "delay"
  /\ results = << FALSE >>
  /\ campRun.cursor = 1
  /\ storage.cursor = 1

\* executeDomCampaign is not running: it has returned, and so has every storage call
NoRunActive == pc = "idle" /\ storageQueue = << >>

C8_Sequential ==
  Len(attempted) >= 1 =>
    (Len(results) >= Len(attempted) - 1 /\ delaysElapsed >= Len(attempted) - 1)

C8_Witness ==
  /\ pc = "nav"
  /\ Len(attempted) = 2
  /\ Len(results) = 1
  /\ delaysElapsed = 1

\* the values configured in the two delay inputs ('' stands for the default)
ConfiguredMin == ValueOr(campDelayMin, DelayMinDefault)

ConfiguredMax == ValueOr(campDelayMax, DelayMaxDefault)

ClampedMin == clamp(ConfiguredMin, DelayMinLow, DelayMinHigh)

ClampedMax == clamp(ConfiguredMax, DelayMaxLow, DelayMaxHigh)

\* C9 as stated: every pacing wait is at least delayMin and at most delayMax
\* seconds, and no pacing wait follows the last contact.
C9_WaitWithinConfigured ==
  pc = "delay" =>
    /\ lastDelay >= ConfiguredMin * RandDen
    /\ lastDelay <= ConfiguredMax * RandDen
    /\ campRun.cursor < Total

\* C9 amended: every pacing wait lies between the two clamped delay values,
\* at least the smaller and at most the larger of them, and no pacing wait follows
\* the last contact.
C9_WaitWithinClamped ==
  pc = "delay" =>
    /\ lastDelay >= Min2(ClampedMin, ClampedMax) * RandDen
    /\ lastDelay <= Max2(ClampedMin, ClampedMax) * RandDen
    /\ campRun.cursor < Total

C9_Witness ==
  /\ pc = "delay"
  /\ ClampedMin > ClampedMax
  /\ lastDelay < ClampedMin * RandDen
  /\ lastDelay > ClampedMax * RandDen

\* C10: a polling stage never queries the DOM more often than its attempt budget;
\* when the element was absent at every query the stage ends not-found or failed
\* after exactly that many queries; and every stage that has begun ends.
C10_PollsAreBounded ==
  /\ [](/\ poll.queries <= poll.max
        /\ (poll.result \notin { "none", "pending" } /\ ~poll.seen) =>
             (poll.result = Exhausted(poll.stage) /\ poll.queries = poll.max))
  /\ (poll.result = "pending") ~> (poll.result # "pending")

C10_Witness ==
  /\ poll.stage = "preview"
  /\ poll.result = "failed"
  /\ ~poll.seen
  /\ poll.queries = PreviewAttempts

\* C11: when the composer was absent at every poll of the validation loop,
\* openChatBySearch fails, and only after the whole attempt budget; the failure is
\* recorded as a failed result of the contact in progress and the run goes on to the
\* finally block of that contact, with no other contact touched.
C11_ChatOpenFailed ==
  [][ /\ (chat.result = "pending" /\ chat'.result # "pending" /\ ~chat'.seen)
           => (chat'.result = "chatNotOpened" /\ chat'.i = MAX_COMPOSER_CHECK_ATTEMPTS)
      /\ (pc = "nav" /\ chat.result = "chatNotOpened" /\ chat' = ChatIdle)
           => /\ results' = Append(results, FALSE)
              /\ attempted' = attempted
              /\ campRun'.running
              /\ campRun'.cursor = idx + 1
              /\ pc' = "finallySave" ]_vars

\* the second contact is in navigation after the first one succeeded, and the validation
\* loop ended without ever seeing the composer
C11_Witness ==
  /\ pc = "nav"
  /\ idx = 1
  /\ results = << TRUE >>
  /\ chat.result = "chatNotOpened"
  /\ ~chat.seen

\* the digits of the title and the target share their last 8 digits, or are equal
SharesSuffix(titleDigits, digits) ==
  \/ titleDigits = digits
  \/ /\ Len(titleDigits) >= PHONE_SUFFIX_MATCH_LENGTH
     /\ Len(digits) >= PHONE_SUFFIX_MATCH_LENGTH
     /\ SliceLast(titleDigits, PHONE_SUFFIX_MATCH_LENGTH)
          = SliceLast(digits, PHONE_SUFFIX_MATCH_LENGTH)

\* C12: a chat accepted at an attempt that is not past the skip threshold has a title
\* whose digits share an 8-digit suffix with the target (or equal it).
C12_AcceptsOnSuffixMatch ==
  (chat.result = "opened" /\ chat.i <= VALIDATION_SKIP_THRESHOLD)
    => SharesSuffix(chat.title, chat.digits)

\* the sends recorded within the hour that ends now
SentWithinHour == { k \in 1..Len(rate.sent) : rate.sent[k] >= rate.now - OneHourMs }

\* C13 (as stated): a checkRateLimit call made when maxMessagesPerHour sends were
\* recorded within the last hour returns false, and one made when one hour has passed
\* since every recorded send returns true.
C13_WindowAfterOneHour ==
  rate.last = "check"
    => /\ (Cardinality(SentWithinHour) >= maxMessagesPerHour) => ~rate.allowed
       /\ (\A k \in 1..Len(rate.sent) : rate.sent[k] <= rate.now - OneHourMs) => rate.allowed

\* C13 (amended): a checkRateLimit call made when maxMessagesPerHour sends were
\* recorded within the last hour returns false, and one made when more than one hour
\* has passed since every recorded send returns true.
C13_WindowAfterMoreThanOneHour ==
  rate.last = "check"
    => /\ (Cardinality(SentWithinHour) >= maxMessagesPerHour) => ~rate.allowed
       /\ (\A k \in 1..Len(rate.sent) : rate.sent[k] < rate.now - OneHourMs) => rate.allowed

\* maxMessagesPerHour sends were recorded, more than one hour passed, and checkRateLimit
\* was called
C13_Witness ==
  /\ rate.last = "check"
  /\ Len(rate.sent) >= maxMessagesPerHour
  /\ \A k \in 1..Len(rate.sent) : rate.sent[k] < rate.now - OneHourMs
  /\ rate.allowed

\* C14 (as stated): right after recordMessageSent the window holds no timestamp older
\* than one hour.
C14_RecordPrunes ==
  rate.last = "record" => \A k \in 1..Len(rate.window) : rate.window[k] >= rate.now - OneHourMs

\* C14 (amended): recordMessageSent appends the current timestamp and removes nothing;
\* checkRateLimit prunes: right after it the window holds exactly the recorded
\* timestamps that are not older than one hour.
C14_CheckPrunes ==
  /\ rate.last = "record" =>
       (rate.window # << >> /\ rate.window[Len(rate.window)] = rate.now)
  /\ rate.last = "check" =>
       /\ \A k \in 1..Len(rate.window) : rate.window[k] >= rate.now - OneHourMs
       /\ Len(rate.window) = Cardinality(SentWithinHour)

\* checkRateLimit removed a timestamp older than one hour and kept a younger one
C14_Witness ==
  /\ rate.last = "check"
  /\ rate.window # << >>
  /\ Len(rate.window) < Len(rate.sent)

\* the order of the strategies of the fast mode
StrategyOrder == << "native", "paste", "assign" >>

\* the strategies of a fast-mode call were run in order, each after the earlier ones
\* threw or failed their read-back, and InsertionFailed follows all three
StrategiesInOrder ==
  ins.mode = "fast" =>
    /\ Len(ins.tried) <= Len(StrategyOrder)
    /\ \A k \in 1..Len(ins.tried) :
         /\ ins.tried[k].m = StrategyOrder[k]
         /\ k < Len(ins.tried) => ins.tried[k].outcome # "ok"
    /\ ins.result = "InsertionFailed" =>
         (Len(ins.tried) = Len(StrategyOrder) /\ \A k \in 1..Len(ins.tried) : ins.tried[k].outcome # "ok")

\* C15 (as stated): in the fast mode the strategies run in order, ComposerNotFound is
\* the result exactly when no composer exists, EmptyMessage exactly when a composer
\* exists and the text is blank, InsertionFailed only after all three strategies.
C15_InsertContract ==
  /\ StrategiesInOrder
  /\ (ins.mode = "fast" /\ ins.pc = "done") =>
       /\ (ins.result = "ComposerNotFound") <=> ~ins.composer
       /\ (ins.result = "EmptyMessage") <=> (ins.composer /\ Trim(ins.text) = << >>)

\* C15 (amended): the same, with EmptyMessage exactly when a composer exists and the
\* text is the empty string.
C15_InsertContractEmpty ==
  /\ StrategiesInOrder
  /\ (ins.mode = "fast" /\ ins.pc = "done") =>
       /\ (ins.result = "ComposerNotFound") <=> ~ins.composer
       /\ (ins.result = "EmptyMessage") <=> (ins.composer /\ ins.text = << >>)

\* a fast-mode call failed after the native command's read-back failed, the paste threw
\* and the assignment threw
C15_Witness ==
  /\ ins.mode = "fast"
  /\ ins.result = "InsertionFailed"
  /\ ins.tried = << Tried("native", "mismatch"), Tried("paste", "threw"),
                    Tried("assign", "threw") >>

\* C16: a contact whose resolved message is blank, in a run without media, fails before
\* the chat navigation: the run is never past openChatBySearch for such a contact.
C16_EmptyMessageBeforeNavigation ==
  ~(pc = "compose" /\ ~Truthy(campMediaPayload) /\ TextFor(idx) = << >>)

\* a text holds a placeholder token
HasPlaceholder(s) == \E k \in 1..Len(s) : s[k] \in Placeholders

\* C17: applyVars applied to a template that holds {{nome}} and {{numero}} and to an
\* entry with a name and a number yields a text without a placeholder token.
C17_NoTokenRemains ==
  (/\ calc.fn = "applyVars"
   /\ calc.done
   /\ \A t \in Placeholders : \E k \in 1..Len(calc.input[1]) : calc.input[1][k] = t
   /\ calc.input[2].name # << >>)
    => ~HasPlaceholder(calc.output)

\* the template with each {{nome}} replaced by the name and each {{numero}} by the
\* number, everything else kept
RECURSIVE LiteralSubstitution(_, _, _)
LiteralSubstitution(s, name, number) ==
  IF s = << >> THEN << >>
  ELSE (CASE Head(s) = "{{nome}}" -> name
          [] Head(s) = "{{numero}}" -> number
          [] OTHER -> << Head(s) >>)
       \o LiteralSubstitution(Tail(s), name, number)

\* C18: the result of applyVars is the literal substitution of the name and the number
\* into the template.
C18_SubstitutionIsLiteral ==
  (calc.fn = "applyVars" /\ calc.done)
    => calc.output = LiteralSubstitution(calc.input[1], calc.input[2].name,
                                         NumberText(calc.input[2]))

\* C19: normalizePhoneNumber applied to its own result returns that result.
C19_NormalizeIdempotent ==
  (calc.fn = "normalizePhoneNumber" /\ calc.done)
    => normalizePhoneNumber(calc.output) = calc.output

\* a text with a character that is removed and with 55 in front of ten more digits was
\* normalized to the plus sign and its digits
C19_Witness ==
  /\ calc.fn = "normalizePhoneNumber"
  /\ calc.done
  /\ KeepDigitsPlus(calc.input) # calc.input
  /\ Len(KeepDigitsPlus(calc.input)) = CountryCodeMinLen
  /\ calc.output = << "+" >> \o KeepDigitsPlus(calc.input)

\* the records of a contact list that carry a number, in order, with the number
\* normalized
RecordsOf(raw) == LineEntries(TrimmedNonEmpty(Split(raw, "\n")))

\* the position of the last record with the given number
LastWith(recs, number) ==
  CHOOSE k \in 1..Len(recs) :
    /\ recs[k].number = number
    /\ \A j \in (k + 1)..Len(recs) : recs[j].number # number

\* C20: the entries parseCampaignLines returns have pairwise distinct numbers, these
\* are exactly the normalized numbers of the records, and each entry carries the name
\* of the last record with its number.
C20_OneEntryPerNumber ==
  (calc.fn = "parseCampaignLines" /\ calc.done) =>
    LET recs == RecordsOf(calc.input)
        out  == calc.output
    IN  /\ \A a, b \in 1..Len(out) : a # b => out[a].number # out[b].number
        /\ { out[a].number : a \in 1..Len(out) } = { recs[k].number : k \in 1..Len(recs) }
        /\ \A a \in 1..Len(out) : out[a].name = recs[LastWith(recs, out[a].number)].name

\* two records with the same normalized number and different names were parsed into
\* one entry
C20_Witness ==
  /\ calc.fn = "parseCampaignLines"
  /\ calc.done
  /\ Len(RecordsOf(calc.input)) = 2
  /\ RecordsOf(calc.input)[1].name # RecordsOf(calc.input)[2].name
  /\ Len(calc.output) = 1

\* a number made of digits only, after an optional single leading plus sign
WellFormedNumber(number) ==
  \A k \in 1..Len(number) : number[k] \in DigitChars \/ (k = 1 /\ number[k] = "+")

\* C21: every entry parseCampaignLines returns has a number made only of digits with an
\* optional single leading plus sign.
C21_NumbersWellFormed ==
  (calc.fn = "parseCampaignLines" /\ calc.done)
    => \A a \in 1..Len(calc.output) : WellFormedNumber(calc.output[a].number)

\* C22: a command received by the tab never has more than one response, and is
\* eventually answered with one.
C22_CommandsAnswered ==
  \A d \in DirectIds :
    /\ [](Len(replies[d].answers) <= 1)
    /\ (replies[d].cmd # "none") ~> (Len(replies[d].answers) = 1)

\* C23: once a run has shown its first progress, and after it ended, the count shown
\* by updateProgress is the number of contacts whose step was carried out, out of the
\* number of contacts of the run.
C23_ProgressIsAttempted ==
  (pc # "initSave" /\ (campRun.running \/ outcome # "none"))
    => progress = << Len(results), Total >>

\* the elements of a document a selector of the list matches and that are rendered
RenderedCandidates(dom) ==
  { el \in Elements : el \in dom.rendered /\ \E k \in Selectors : el \in dom.match[k] }

\* the first selector in list order that matches a rendered element
FirstSelectorWithRendered(dom) ==
  CHOOSE k \in Selectors :
    /\ dom.match[k] \cap dom.rendered # {}
    /\ \A j \in 1..(k - 1) : dom.match[j] \cap dom.rendered = {}

\* C24: an element a lookup returns is rendered and is matched by the first selector of
\* the list that matches a rendered element; when no candidate is rendered, findComposer
\* and findSendButton return null.
C24_LocatorReturnsRendered ==
  (calc.done /\ calc.fn \in { "findElement", "findComposer", "findSendButton" }) =>
    /\ calc.output # NoElement =>
         /\ calc.output \in calc.input.rendered
         /\ calc.output \in calc.input.match[FirstSelectorWithRendered(calc.input)]
    /\ RenderedCandidates(calc.input) = {} => calc.output = NoElement

\* C25: after a click on Stop during a run the run ends (running becomes false), also
\* when the run was waiting in waitWhilePaused and Pause is never clicked again.
C25_StopEndsRun == stopReq ~> ~campRun.running

\* Stop was clicked while the run was waiting in waitWhilePaused
C25_Witness == stopReq /\ campRun.running /\ campRun.abort /\ pc = "paused"

\* C26: while the composer was found at every poll of the validation loop, the loop
\* does not end by throwing and is not past poll VALIDATION_SKIP_THRESHOLD + 1, which
\* is within the attempt budget: whatever the titles read, the chat is accepted by then.
C26_ComposerAlwaysOpens ==
  (chat.stage = "loop" /\ chat.always) =>
    /\ chat.result \in { "pending", "opened" }
    /\ chat.i <= VALIDATION_SKIP_THRESHOLD + 1
    /\ VALIDATION_SKIP_THRESHOLD + 1 < MAX_COMPOSER_CHECK_ATTEMPTS

\* a chat accepted past the skip threshold, with the composer found at every poll and
\* a title that does not match the target
C26_Witness ==
  /\ chat.result = "opened"
  /\ chat.always
  /\ chat.i = VALIDATION_SKIP_THRESHOLD + 1
  /\ ~isCorrectChat(chat.title, chat.digits)

\* the text of a row has at least SEARCH_SUFFIX_LENGTH digits and passes the filter
SharesSearchSuffix(text) ==
  Len(text) >= SEARCH_SUFFIX_LENGTH /\ RowMatches(text, SearchDigits)

\* C27: when a rendered row shares the 6-digit suffix of the target, the clicked row
\* shares it; a row that does not share it is clicked only by the fallback branch, and
\* the fallback branch is taken only when no row shares it.
C27_ClickedRowSharesSuffix ==
  (calc.done /\ calc.fn = "clickSearchResult") =>
    LET rows == calc.input
        out  == calc.output
    IN  /\ (\E k \in DOMAIN rows : rows[k].rendered /\ SharesSearchSuffix(rows[k].text))
             => (out.row # 0 /\ SharesSearchSuffix(rows[out.row].text))
        /\ (out.row # 0 /\ ~SharesSearchSuffix(rows[out.row].text)) => out.via = "fallback"
        /\ out.via = "fallback" => \A k \in DOMAIN rows : ~SharesSearchSuffix(rows[k].text)

\* C28: the sends of campaign runs recorded within the hour that ends now are never
\* more than maxMessagesPerHour.
C28_SendsWithinLimit ==
  rate.last = "record" => Cardinality(SentWithinHour) <= maxMessagesPerHour

\* C29: when a run started with a non-empty message is at the step that calls
\* attachMediaAndSend for a contact (the media branch is taken as soon as the composer
\* is found), and the payload is the one selected at the start, the payload has bytes.
C29_MediaPayloadHasBytes ==
  (pc = "compose" /\ Trim(runMsg) # << >> /\ campMediaPayload = startMedia
     /\ Truthy(campMediaPayload))
    => Base64Of(campMediaPayload) # << >>

\* C30: at the step of a contact that chooses between the media branch and the text
\* branch, the payload the run reads is the one that was selected when the run started.
C30_MediaFixedAtStart == pc = "compose" => campMediaPayload = startMedia

\* C31: after Stop was clicked while a run started by the scheduled-campaign command
\* was in progress, that run goes on to no further contact: its loop index does not grow.
C31_StopGovernsScheduledRun ==
  [][ \A d \in DirectIds :
        (direct[d].kind = "scheduled" /\ direct[d].pc # "idle" /\ direct[d].stopAsked)
          => direct'[d].i <= direct[d].i ]_vars

\* pc values between the return of openChatBySearch for a contact and the end of the
\* send to that contact
ChatInUsePcs == { "compose", "media", "text" }

\* C32: while a run is between the opening of the chat of a contact and the dispatch of
\* that contact's message, no other run completes a chat navigation on the tab.
C32_NoNavigationBeforeDispatch ==
  [][ /\ pc \in ChatInUsePcs =>
           \A d \in DirectIds : ~(direct[d].pc = "nav" /\ direct'[d].pc = "compose")
      /\ \A d \in DirectIds :
           direct[d].pc \in ChatInUsePcs =>
             /\ ~(pc = "nav" /\ pc' = "compose")
             /\ \A e \in DirectIds \ { d } :
                  ~(direct[e].pc = "nav" /\ direct'[e].pc = "compose") ]_vars

\* the records written by the storage calls that are pending
PendingRecords == { storageQueue[n].rec : n \in { m \in 1..Len(storageQueue) : storageQueue[m].op = "set" } }

\* C33: every record of a run, stored or on its way to the storage, carries the time at
\* which the run started as its startedAt.
C33_SameStartedAt ==
  \A rec \in PendingRecords \cup ({ storage } \ { NoRecord }) : rec.startedAt = DateAtStart

\* C34: the sent value of an {ok: true, sent} response to a team-messages command is the
\* number of members to whom a message was dispatched.
C34_SentCountsDispatched ==
  \A d \in DirectIds :
    replies[d].cmd = "team" =>
      \A k \in DOMAIN replies[d].answers :
        replies[d].answers[k].ok => replies[d].answers[k].sent = replies[d].dispatched

\* the four control fields of campRun
ControlFields(r) == << r.running, r.paused, r.abort, r.cursor >>

\* C35: while no run is active nothing changes running, paused, abort or cursor, clicks
\* on Pause and Stop included; a run begins with paused = false, abort = false and
\* cursor = 0; paused is never true while no run is active.
C35_ControlsOutsideRun ==
  /\ [](campRun.paused => campRun.running)
  /\ [][ /\ (~campRun.running /\ ~campRun'.running)
              => ControlFields(campRun') = ControlFields(campRun)
         /\ (~campRun.running /\ campRun'.running)
              => (~campRun'.paused /\ ~campRun'.abort /\ campRun'.cursor = 0) ]_vars

\* Pause was clicked after a run that was stopped had ended
C35_Witness ==
  /\ idleClick = "pause"
  /\ ~campRun.running
  /\ campRun.abort
  /\ campRun.cursor > 0

\* C36: while no queue is paused, every item that was enqueued with a handler ends
\* completed or failed, whatever the other queues are processing.
C36_ItemsEndProcessed ==
  ([](qm.paused = {})) =>
    \A id \in 1..MaxItems :
      (id \in DOMAIN qm.items /\ qm.items[id].handler)
        ~> (id \in DOMAIN qm.items /\ qm.items[id].status \in { "completed", "failed" })

\* C37: every item that is taken from a queue has the smallest priority value among the
\* items that were in the queue, also when an item that failed was put back.
C37_StartsSmallestPriority ==
  \A k \in DOMAIN qm.starts : qm.starts[k].priority = qm.starts[k].best

\* C38: no item that pause(queueName) has set to paused is taken from the queue before
\* resume(queueName).
C38_NoStartWhilePaused ==
  \A k \in DOMAIN qm.starts : ~qm.starts[k].paused

\* the active handoffs that are assigned to agent a
HandoffsOf(a) == { c \in ConversationIds : has.activeHandoffs[c] = a }

\* C39: the currentLoad of every agent is the number of active handoffs assigned to it.
C39_LoadCountsHandoffs ==
  \A k \in DOMAIN has.agents :
    has.agents[k].currentLoad = Cardinality(HandoffsOf(has.agents[k].id))

\* C40: the handler of a task that cancel(taskId) has found and removed is not invoked
\* any more.
C40_NoRunAfterCancel ==
  sm.last # 0 => ~sm.objects[sm.last].cancelled
====
